---- MODULE Spec2Model ----
(***************************************************************************)
(* Verification model of the card-page animation engine:                   *)
(*   - the animation dependency-graph scheduler (Anim, CardAnim,           *)
(*     DelayAnim: javascript/Animations.js and its CardAnim variant),      *)
(*   - the Dealer's seed layout and jitter loop (javascript/Dealer.js),    *)
(*   - the GridManager, the PopupManager that drives it, the flip of the  *)
(*     CardFaceManager and the countdown.                                  *)
(* Promises are modelled as objects with an explicit life cycle, timers    *)
(* and transitions by a discrete clock: a timer or transition of duration  *)
(* d started at time t may complete at any time >= t + d.                  *)
(***************************************************************************)
EXTENDS Integers, Sequences, FiniteSets, TLC

VARIABLES
    nodes,        \* heap of animation nodes, a sequence; a node's identity is its index
    promises,     \* the Map<Anim, Promise> of one animate() run: node -> promise object
    promiseObjs,  \* every promise object created by animate(), in creation order
    animated,     \* has animate() been called on a root; the root it was called on (0: no)
    animateCount, \* per node: how many times its _animate step has run
    fired,        \* per node: the callbacks that have run, in order
    writes,       \* attribute/style writes made on element groups: <<node, "start"|"end">>
    now,          \* the clock
    nops,         \* number of API calls made so far
    last,         \* the last API call: operation, arguments, returned value, thrown or not
    attached,     \* per node: the callbacks attached to it, in attachment order
    followed,     \* pairs <<a, b>> for which a.followedBy(b) was called before animate()
    dealer,       \* the Dealer: its configuration and the progress of createAnimation
    gridManager,  \* the GridManager: its fields, the window and the animations it has in flight
    popupManager, \* the PopupManager: its fields, the popup's contents and its pending timers
    cardFaceManager, \* the CardFaceManager: the classes of the cards and the timers of flip
    countdown     \* setupCountdown: the interval, the clock and the scheduled reload

vars == << nodes, promises, promiseObjs, animated, animateCount, fired,
           writes, now, nops, last, attached, followed, dealer, gridManager,
           popupManager, cardFaceManager, countdown >>

----------------------------------------------------------------------------
(* Bounds of the model *)

MaxOps == 2
MaxDuration == 1

----------------------------------------------------------------------------
(* Values *)

Null == [k |-> "null", v |-> <<>>]
Obj(id) == [k |-> "obj", v |-> <<id>>]
Arr(ids) == [k |-> "arr", v |-> ids]

\* JavaScript truthiness of a params argument: null is falsy, an object or an
\* array (also an empty one) is truthy.
Truthy(p) == p.k # "null"

IsArray(p) == p.k = "arr"

\* Elements groups (D3 selections) and their item counts: selection.size ()
Selection(name, size) == [name |-> name, size |-> size]
Selections == {Selection("one", 1), Selection("two", 2)}
Size(sel) == sel.size

Fns == {"f1", "f2"}

\* An optional argument: << >> when omitted or null, <<v>> when given
Given(v) == <<v>>
Omitted == << >>

NoArgs == [selection |-> Selection("", 0), startParams |-> Null, endParams |-> Null,
           ease |-> Omitted, duration |-> Omitted]

\* no Dealer is in use
NoDealer == [pc |-> "none"]

\* no GridManager is in use
NoGridManager == [pc |-> "none"]

\* no PopupManager, no CardFaceManager, no countdown
NoPopupManager == [pc |-> "none"]
NoCardFaceManager == [pc |-> "none"]
NoCountdown == [pc |-> "none"]

NoCall == [op |-> "none", a |-> 0, b |-> 0, ret |-> 0, threw |-> FALSE, args |-> NoArgs]

----------------------------------------------------------------------------
(* Anim / CardAnim / DelayAnim: construction and the composition API *)

\* Anim.constructor, "Check array parameters": are the params per-element arrays
ArrayParams(startParams, endParams) ==
    IF ~Truthy(startParams)
    THEN IF ~Truthy(endParams) THEN FALSE ELSE IsArray(endParams)
    ELSE IsArray(startParams)

\* Mutant: the cardinality of endParams is not checked
CtorThrowsStartOnly(selection, startParams, endParams) ==
    LET arrayParams == ArrayParams(startParams, endParams) IN
    \/ /\ Truthy(startParams)
       /\ Truthy(endParams)
       /\ IsArray(endParams) # arrayParams
    \/ /\ arrayParams
       /\ Truthy(startParams) /\ Size(selection) # Len(startParams.v)

\* Anim.constructor: the two throws
CtorThrows(selection, startParams, endParams) ==
    LET arrayParams == ArrayParams(startParams, endParams) IN
    \/ /\ Truthy(startParams)
       /\ Truthy(endParams)
       /\ IsArray(endParams) # arrayParams
    \/ /\ arrayParams
       /\ \/ Truthy(startParams) /\ Size(selection) # Len(startParams.v)
          \/ Truthy(endParams) /\ Size(selection) # Len(endParams.v)

\* Anim.constructor, "Turn the animation parameters into arrays": a copy of the
\* array, or the single object repeated once per element; null stays null
Spread(selection, params, arrayParams) ==
    IF Truthy(params)
    THEN IF arrayParams THEN Arr(params.v)
         ELSE Arr([i \in 1 .. Size(selection) |-> params.v[1]])
    ELSE Null

\* Anim.constructor: the node built when nothing throws. callback is the
\* sequence of functions the stored closure calls, <<>> for null.
NewNode(kind, selection, startParams, endParams, ease, duration, dependsOn, callback) ==
    LET arrayParams == ArrayParams(startParams, endParams) IN
    [ kind |-> kind,
      selection |-> selection,
      startParams |-> Spread(selection, startParams, arrayParams),
      endParams |-> Spread(selection, endParams, arrayParams),
      ease |-> ease,
      duration |-> duration,
      dependsOn |-> dependsOn,
      callback |-> callback ]

\* DelayAnim.constructor: super ( selection, null, null, ease, duration, dependsOn )
NewDelay(selection, ease, duration, dependsOn) ==
    NewNode("Delay", selection, Null, Null, ease, duration, dependsOn, <<>>)

\* continueTo: ease ?? this.ease
EaseOr(ease, fallback) == IF ease = Omitted THEN fallback ELSE ease[1]

\* Mutant: duration || this.duration, which also replaces a given 0
DurationOrElse(duration, fallback) ==
    IF duration = Omitted THEN fallback
    ELSE IF duration[1] = 0 THEN fallback ELSE duration[1]

\* continueTo: duration ?? this.duration
DurationOr(duration, fallback) == IF duration = Omitted THEN fallback ELSE duration[1]

\* Mutant: the dependency is pushed on the wrong node
PushOnThis(heap, target, dep) ==
    [heap EXCEPT ![dep].dependsOn = Append(@, target)]

\* Anim.followedBy: anim.dependsOn.push ( this )
PushDependency(heap, target, dep) ==
    [heap EXCEPT ![target].dependsOn = Append(@, dep)]

\* Mutant: the new callback replaces the old one
OverwriteCallback(callback, f) == <<f>>

\* Anim.addCallback: the new closure runs the old callback, then f
ComposeCallback(callback, f) ==
    IF callback # <<>> THEN Append(callback, f) ELSE <<f>>

----------------------------------------------------------------------------
(* Anim.animate: the recursive walk with its identity-keyed memo *)

\* Mutant: the memo is never consulted
NeverAnimating(n, map) == FALSE

\* promises.has ( this )
AlreadyAnimating(n, map) == n \in DOMAIN map

\* promises.set ( key, value )
MapSet(map, key, value) ==
    [x \in DOMAIN map \cup {key} |-> IF x = key THEN value ELSE map[x]]

RECURSIVE animate(_, _, _)
RECURSIVE animateDeps(_, _, _, _)

\* Anim.animate ( promises ): st is the memo map and the promise objects made
\* so far. The promise set for a node is Promise.all ( depPromises ).then (
\* () => this._animate () ): it remembers the promises it waits for.
animate(heap, n, st) ==
    IF AlreadyAnimating(n, st.map)
    THEN st
    ELSE LET r == animateDeps(heap, heap[n].dependsOn, 1, [st |-> st, depPromises |-> <<>>])
             id == Len(r.st.objs) + 1
         IN [ map |-> MapSet(r.st.map, n, id),
              objs |-> Append(r.st.objs,
                  [node |-> n, deps |-> r.depPromises, state |-> "waiting",
                   due |-> 0, endTimer |-> FALSE, doneAt |-> 0]) ]

\* the loop "for ( const dep of this.dependsOn )"
animateDeps(heap, deps, i, acc) ==
    IF i > Len(deps)
    THEN acc
    ELSE LET st2 == animate(heap, deps[i], acc.st)
         IN animateDeps(heap, deps, i + 1,
                [st |-> st2, depPromises |-> Append(acc.depPromises, st2.map[deps[i]])])

\* The recursion of animate terminates only on an acyclic graph.
RECURSIVE ReachesIn(_, _, _, _)
ReachesIn(heap, from, to, fuel) ==
    /\ fuel > 0
    /\ \E i \in 1 .. Len(heap[from].dependsOn) :
          \/ heap[from].dependsOn[i] = to
          \/ ReachesIn(heap, heap[from].dependsOn[i], to, fuel - 1)

Acyclic(heap) == \A n \in 1 .. Len(heap) : ~ReachesIn(heap, n, n, Len(heap))

\* animate ( root ) returns: every node the walk from root visits is off any cycle
Terminates(heap, root) ==
    \A n \in 1 .. Len(heap) :
        (n = root \/ ReachesIn(heap, root, n, Len(heap))) => ~ReachesIn(heap, n, n, Len(heap))

----------------------------------------------------------------------------
(* The promise a dependent waits on *)

\* a signal that resolves as soon as the node's own wait is over
ResolvedAtOwnDone(objs, p) == objs[p].state \in {"ownDone", "fulfilled"}

\* A promise stored in the map is resolved for its dependents once the chain
\* Promise.all ( ... ).then ( _animate ) is fulfilled, that is once the promise
\* returned by _animate (own wait, then the callback) is fulfilled.
Resolved(objs, p) == objs[p].state = "fulfilled"

\* Mutant: only the first predecessor is awaited
FirstDepResolved(objs, p) ==
    IF objs[p].deps = << >> THEN TRUE ELSE objs[objs[p].deps[1]].state = "fulfilled"

\* Promise.all ( depPromises ) is fulfilled
DepsResolved(objs, p) ==
    \A i \in 1 .. Len(objs[p].deps) : Resolved(objs, objs[p].deps[i])

\* _animate: the attribute/style writes made synchronously when the step runs.
\* Anim applies the start params, and the end params through a D3 transition;
\* CardAnim applies the start params and defers the end params to a 0 ms timer;
\* DelayAnim writes nothing.
StepWrites(n, node) ==
    IF node.kind = "Delay" THEN {}
    ELSE (IF Truthy(node.startParams) THEN {<<n, "start">>} ELSE {})
         \cup (IF node.kind = "Anim" /\ Truthy(node.endParams) THEN {<<n, "end">>} ELSE {})

\* Mutant: the duration is dropped
DueNow(t, node) == t

\* new Promise ( res => setTimeout ( res, this.duration ) ), and likewise a
\* transition of this.duration: when the wait started at time t is due
DueTime(t, node) == t + node.duration

\* Mutant: the wait resolves at once
OwnWaitAtOnce(obj, t) == TRUE

\* A timer or a transition completes at or after its due time.
OwnWaitOver(obj, t) == t >= obj.due

\* if ( this.callback ) this.callback (): the functions that run
CallbacksRun(node) == node.callback

\* CardAnim._animate: setTimeout ( () => applyAnimParams ( ...endParams... ) )
DefersEnd(node) == node.kind = "CardAnim" /\ Truthy(node.endParams)

----------------------------------------------------------------------------
(* Actions of the scheduler *)

\* a.followedBy ( b )
FollowedBy(a, b) ==
    /\ animated = 0
    /\ nops < MaxOps
    /\ nodes' = PushDependency(nodes, b, a)
    /\ last' = [op |-> "followedBy", a |-> a, b |-> b, ret |-> b, threw |-> FALSE, args |-> NoArgs]
    /\ followed' = followed \cup {<<a, b>>}
    /\ nops' = nops + 1
    /\ UNCHANGED << promises, promiseObjs, animated, animateCount, fired, writes, now,
                    attached, dealer, gridManager, popupManager, cardFaceManager, countdown >>

\* n.addCallback ( f )
AddCallback(n, f) ==
    /\ animated = 0
    /\ nops < MaxOps
    /\ nodes' = [nodes EXCEPT ![n].callback = ComposeCallback(@, f)]
    /\ last' = [op |-> "addCallback", a |-> n, b |-> 0, ret |-> n, threw |-> FALSE,
                args |-> NoArgs]
    /\ attached' = [attached EXCEPT ![n] = Append(@, f)]
    /\ nops' = nops + 1
    /\ UNCHANGED << promises, promiseObjs, animated, animateCount, fired, writes, now,
                    followed, dealer, gridManager, popupManager, cardFaceManager, countdown >>

\* root.animate (): one call, with a fresh map
Animate(root) ==
    /\ animated = 0
    /\ Terminates(nodes, root)
    /\ LET st == animate(nodes, root, [map |-> << >>, objs |-> << >>])
       IN /\ promises' = st.map
          /\ promiseObjs' = st.objs
    /\ animated' = root
    /\ animateCount' = [n \in 1 .. Len(nodes) |-> 0]
    /\ fired' = [n \in 1 .. Len(nodes) |-> << >>]
    /\ UNCHANGED << nodes, writes, now, nops, last, attached, followed, dealer, gridManager, popupManager, cardFaceManager, countdown >>

\* The reaction of Promise.all ( depPromises ).then ( () => this._animate () ):
\* the node's own step runs, with the fields the node has now.
RunAnimate(p) ==
    /\ promiseObjs[p].state = "waiting"
    /\ DepsResolved(promiseObjs, p)
    /\ LET n == promiseObjs[p].node
           node == nodes[n]
       IN /\ animateCount' = [animateCount EXCEPT ![n] = @ + 1]
          /\ writes' = writes \cup StepWrites(n, node)
          /\ promiseObjs' = [promiseObjs EXCEPT ![p].state = "running",
                                                ![p].due = DueTime(now, node),
                                                ![p].endTimer = DefersEnd(node)]
    /\ UNCHANGED << nodes, promises, animated, fired, now, nops, last, attached, followed, dealer, gridManager, popupManager, cardFaceManager, countdown >>

\* CardAnim: the 0 ms timer that applies the end params fires
ApplyEnd(p) ==
    /\ promiseObjs[p].endTimer
    /\ writes' = writes \cup {<<promiseObjs[p].node, "end">>}
    /\ promiseObjs' = [promiseObjs EXCEPT ![p].endTimer = FALSE]
    /\ UNCHANGED << nodes, promises, animated, animateCount, fired, now, nops,
                    last, attached, followed, dealer, gridManager, popupManager, cardFaceManager, countdown >>

\* The node's own wait ends: the transition's end () promise or the
\* setTimeout ( res, duration ) promise is fulfilled, at or after its due time.
OwnDone(p) ==
    /\ promiseObjs[p].state = "running"
    /\ OwnWaitOver(promiseObjs[p], now)
    /\ promiseObjs' = [promiseObjs EXCEPT ![p].state = "ownDone"]
    /\ UNCHANGED << nodes, promises, animated, animateCount, fired, writes, now,
                    nops, last, attached, followed, dealer, gridManager, popupManager, cardFaceManager, countdown >>

\* promise.then ( () => { if ( this.callback ) this.callback (); } ): the
\* callback the node holds now runs, then the node's promise is fulfilled.
RunCallback(p) ==
    /\ promiseObjs[p].state = "ownDone"
    /\ LET n == promiseObjs[p].node
       IN fired' = [fired EXCEPT ![n] = @ \o CallbacksRun(nodes[n])]
    /\ promiseObjs' = [promiseObjs EXCEPT ![p].state = "fulfilled", ![p].doneAt = now]
    /\ UNCHANGED << nodes, promises, animated, animateCount, writes, now, nops,
                    last, attached, followed, dealer, gridManager, popupManager, cardFaceManager, countdown >>

\* Time passes while some wait is not yet due.
Tick ==
    /\ \E p \in 1 .. Len(promiseObjs) :
          promiseObjs[p].state = "running" /\ promiseObjs[p].due > now
    /\ now' = now + 1
    /\ UNCHANGED << nodes, promises, promiseObjs, animated, animateCount, fired,
                    writes, nops, last, attached, followed, dealer, gridManager, popupManager, cardFaceManager, countdown >>

----------------------------------------------------------------------------
(* Specification of the scheduler: three nodes, one of each class, composed
   freely, then animated once *)

Init ==
    /\ \E e1 \in {Null, Arr(<<"p1", "p2">>)}, cb \in {<< >>, <<"c0">>},
          d2 \in {0, MaxDuration}, deps3 \in {<< >>, <<1, 2>>} :
          nodes = << NewNode("Anim", Selection("two", 2), Null, e1, "sinInOut", MaxDuration, << >>, cb),
                     NewNode("CardAnim", Selection("one", 1), Obj("o"), Obj("q"), "ease-in-out", d2, << >>, << >>),
                     NewDelay(Selection("two", 2), "sinOut", MaxDuration, deps3) >>
    /\ promises = << >>
    /\ promiseObjs = << >>
    /\ animated = 0
    /\ animateCount = << >>
    /\ fired = << >>
    /\ writes = {}
    /\ now = 0
    /\ nops = 0
    /\ last = NoCall
    /\ attached = [n \in 1 .. Len(nodes) |-> nodes[n].callback]
    /\ followed = {}
    /\ popupManager = NoPopupManager
    /\ cardFaceManager = NoCardFaceManager
    /\ countdown = NoCountdown
    /\ dealer = NoDealer
    /\ gridManager = NoGridManager

Next ==
    \/ \E a, b \in 1 .. Len(nodes) : a # b /\ FollowedBy(a, b)
    \/ \E n \in 1 .. Len(nodes), f \in Fns : AddCallback(n, f)
    \/ \E root \in 1 .. Len(nodes) : Animate(root)
    \/ \E p \in 1 .. Len(promiseObjs) : RunAnimate(p)
    \/ \E p \in 1 .. Len(promiseObjs) : ApplyEnd(p)
    \/ \E p \in 1 .. Len(promiseObjs) : OwnDone(p)
    \/ \E p \in 1 .. Len(promiseObjs) : RunCallback(p)
    \/ Tick

Spec == Init /\ [][Next]_vars

----------------------------------------------------------------------------
(* Specification of construction: new Anim / new CardAnim, then continueTo
   and Anim.Delay on the nodes built. An uncaught throw ends the script. *)

MaxHeap == 2

ParamInputs == {Null, Obj("o"), Arr(<<"p1">>), Arr(<<"p1", "p2">>)}

\* new Anim ( selection, startParams, endParams, ease, duration ) and the same
\* for CardAnim
Construct(kind, selection, startParams, endParams, duration) ==
    /\ ~last.threw
    /\ Len(nodes) < MaxHeap
    /\ LET threw == CtorThrows(selection, startParams, endParams)
           args == [selection |-> selection, startParams |-> startParams,
                    endParams |-> endParams, ease |-> Given("sinOut"),
                    duration |-> Given(duration)]
       IN /\ nodes' = IF threw THEN nodes
                      ELSE Append(nodes, NewNode(kind, selection, startParams, endParams,
                                                 "sinOut", duration, << >>, << >>))
          /\ last' = [op |-> "new", a |-> 0, b |-> 0,
                      ret |-> IF threw THEN 0 ELSE Len(nodes) + 1,
                      threw |-> threw, args |-> args]
    /\ nops' = nops + 1
    /\ UNCHANGED << promises, promiseObjs, animated, animateCount, fired, writes, now,
                    attached, followed, dealer, gridManager, popupManager, cardFaceManager, countdown >>

\* n.continueTo ( endParams, ease, duration ): new Anim ( this.selection, null,
\* endParams, ease ?? this.ease, duration ?? this.duration, [ this ] )
ContinueTo(n, endParams, ease, duration) ==
    /\ ~last.threw
    /\ Len(nodes) < MaxHeap
    /\ LET this == nodes[n]
           threw == CtorThrows(this.selection, Null, endParams)
           args == [selection |-> this.selection, startParams |-> Null,
                    endParams |-> endParams, ease |-> ease, duration |-> duration]
       IN /\ nodes' = IF threw THEN nodes
                      ELSE Append(nodes, NewNode(IF this.kind = "Delay" THEN "Anim" ELSE this.kind,
                                                 this.selection, Null, endParams,
                                                 EaseOr(ease, this.ease),
                                                 DurationOr(duration, this.duration),
                                                 <<n>>, << >>))
          /\ last' = [op |-> "continueTo", a |-> n, b |-> 0,
                      ret |-> IF threw THEN 0 ELSE Len(nodes) + 1,
                      threw |-> threw, args |-> args]
    /\ nops' = nops + 1
    /\ UNCHANGED << promises, promiseObjs, animated, animateCount, fired, writes, now,
                    attached, followed, dealer, gridManager, popupManager, cardFaceManager, countdown >>

\* Anim.Delay ( selection, ease, duration, dependsOn )
Delay(selection, duration, dependsOn) ==
    /\ ~last.threw
    /\ Len(nodes) < MaxHeap
    /\ nodes' = Append(nodes, NewDelay(selection, "sinOut", duration, dependsOn))
    /\ last' = [op |-> "Delay", a |-> 0, b |-> 0, ret |-> Len(nodes) + 1, threw |-> FALSE,
                args |-> [selection |-> selection, startParams |-> Null, endParams |-> Null,
                          ease |-> Given("sinOut"), duration |-> Given(duration)]]
    /\ nops' = nops + 1
    /\ UNCHANGED << promises, promiseObjs, animated, animateCount, fired, writes, now,
                    attached, followed, dealer, gridManager, popupManager, cardFaceManager, countdown >>

InitCtor ==
    /\ nodes = << >>
    /\ promises = << >>
    /\ promiseObjs = << >>
    /\ animated = 0
    /\ animateCount = << >>
    /\ fired = << >>
    /\ writes = {}
    /\ now = 0
    /\ nops = 0
    /\ last = NoCall
    /\ attached = << >>
    /\ followed = {}
    /\ popupManager = NoPopupManager
    /\ cardFaceManager = NoCardFaceManager
    /\ countdown = NoCountdown
    /\ dealer = NoDealer
    /\ gridManager = NoGridManager

NextCtor ==
    \/ \E kind \in {"Anim", "CardAnim"}, selection \in Selections,
          startParams \in ParamInputs, endParams \in ParamInputs :
          Construct(kind, selection, startParams, endParams, MaxDuration)
    \/ \E n \in 1 .. Len(nodes), endParams \in ParamInputs,
          ease \in {Omitted, Given("linear")},
          duration \in {Omitted, Given(0), Given(MaxDuration + 1)} :
          ContinueTo(n, endParams, ease, duration)
    \/ \E selection \in Selections, dependsOn \in {<< >>} \cup {<<n>> : n \in 1 .. Len(nodes)} :
          Delay(selection, MaxDuration, dependsOn)

SpecCtor == InitCtor /\ [][NextCtor]_vars

----------------------------------------------------------------------------
(* Properties of the scheduler *)

NodeIds == 1 .. Len(nodes)

\* the predecessors of n, as a set
Preds(n) == {nodes[n].dependsOn[i] : i \in 1 .. Len(nodes[n].dependsOn)}

\* n is the root or is reached from it through dependsOn
InRun(n) == animated # 0 /\ (n = animated \/ ReachesIn(nodes, animated, n, Len(nodes)))

\* the completion signal of n, the promise stored for it in the map, is fulfilled
Signalled(n) == n \in DOMAIN promises /\ promiseObjs[promises[n]].state = "fulfilled"

\* n's own step has begun
Started(n) ==
    \/ animateCount[n] > 0
    \/ \E w \in writes : w[1] = n
    \/ \E p \in 1 .. Len(promiseObjs) :
          promiseObjs[p].node = n /\ promiseObjs[p].state # "waiting"

\* nothing is left to happen: no reaction, timer or transition is pending
Drained ==
    /\ animated # 0
    /\ \A p \in 1 .. Len(promiseObjs) :
          /\ promiseObjs[p].state \notin {"running", "ownDone"}
          /\ ~promiseObjs[p].endTimer
          /\ promiseObjs[p].state = "waiting" =>
                \E i \in 1 .. Len(promiseObjs[p].deps) :
                    promiseObjs[promiseObjs[p].deps[i]].state # "fulfilled"

\* C1: in one animate() run every node reachable from the root runs its
\* _animate step exactly once (never twice, and once when the run has drained),
\* also a node that is a predecessor of several dependents; a node outside the
\* run never runs.
C1_AnimateExactlyOnce ==
    animated # 0 =>
        \A n \in NodeIds :
            /\ animateCount[n] <= 1
            /\ ~InRun(n) => animateCount[n] = 0
            /\ (Drained /\ InRun(n)) => animateCount[n] = 1

C1_Witness ==
    /\ Drained
    /\ \E n, a, b \in NodeIds :
          /\ a # b /\ n # a /\ n # b
          /\ n \in Preds(a) /\ n \in Preds(b)
          /\ InRun(a) /\ InRun(b)
          /\ animateCount[n] = 1

\* C2: a node's own step never begins before the completion signal of every
\* node in its dependsOn (as of the animate() call) has resolved.
C2_StartsAfterPredecessors ==
    animated # 0 =>
        \A n \in NodeIds : Started(n) => \A q \in Preds(n) : Signalled(q)

C2_Witness ==
    /\ animated # 0
    /\ \E n \in NodeIds : Started(n) /\ Cardinality(Preds(n)) >= 2

\* C3: A.followedBy(B) appends A to B.dependsOn, returns B and leaves A's own
\* dependsOn unchanged; in the animate() run that follows, B's step starts only
\* when A's completion signal has resolved.
C3_FollowedBy ==
    /\ [][ (nops' = nops + 1 /\ last'.op = "followedBy") =>
              /\ nodes'[last'.b].dependsOn = Append(nodes[last'.b].dependsOn, last'.a)
              /\ last'.ret = last'.b
              /\ nodes'[last'.a].dependsOn = nodes[last'.a].dependsOn ]_vars
    /\ [](animated # 0 => \A pair \in followed : Started(pair[2]) => Signalled(pair[1]))

C3_Witness ==
    /\ animated # 0
    /\ \E pair \in followed : Started(pair[2]) /\ Signalled(pair[1])

\* C4: within one animate() run the callback of a node fires exactly once, and
\* only after the node's own transition or delay has finished.
C4_CallbackOnceAfterOwnWait ==
    animated # 0 =>
        \A n \in NodeIds :
            /\ fired[n] # << >> =>
                  /\ animateCount[n] >= 1
                  /\ now >= promiseObjs[promises[n]].due
                  /\ promiseObjs[promises[n]].state = "fulfilled"
            /\ Len(fired[n]) <= Len(nodes[n].callback)
            /\ Signalled(n) => fired[n] = nodes[n].callback

C4_Witness ==
    /\ animated # 0
    /\ \E n \in NodeIds :
          /\ Len(fired[n]) = 1
          /\ nodes[n].duration > 0
          /\ Signalled(n)

\* C5: the callbacks attached to a node (the constructor's first, then those of
\* addCallback in order) all run when the node completes, in attachment order.
C5_CallbacksCompose ==
    animated # 0 => \A n \in NodeIds : Signalled(n) => fired[n] = attached[n]

C5_Witness ==
    /\ animated # 0
    /\ \E n \in NodeIds : Signalled(n) /\ fired[n] = <<"c0", "f2", "f1">>

\* C7: a Delay node writes no attribute or style; its completion signal
\* resolves only after all its predecessors have completed and its duration
\* has then elapsed; its callback fires.
C7_DelayOnlyWaits ==
    animated # 0 =>
        \A n \in NodeIds :
            nodes[n].kind = "Delay" =>
                /\ \A w \in writes : w[1] # n
                /\ Signalled(n) =>
                      /\ \A q \in Preds(n) :
                            /\ Signalled(q)
                            /\ promiseObjs[promises[n]].doneAt >=
                                   promiseObjs[promises[q]].doneAt + nodes[n].duration
                      /\ promiseObjs[promises[n]].doneAt >= nodes[n].duration
                      /\ fired[n] = attached[n]

C7_Witness ==
    /\ animated # 0
    /\ \E n \in NodeIds :
          /\ nodes[n].kind = "Delay"
          /\ nodes[n].duration > 0
          /\ Preds(n) # {}
          /\ Signalled(n)
          /\ fired[n] # << >>

----------------------------------------------------------------------------
(* Properties of construction *)

\* an array argument whose length differs from the selection's item count
Mismatched(args) ==
    \/ IsArray(args.startParams) /\ Len(args.startParams.v) # Size(args.selection)
    \/ IsArray(args.endParams) /\ Len(args.endParams.v) # Size(args.selection)

\* C6: continueTo returns a new node whose dependsOn is [this], whose start
\* params are null, whose ease and duration are the given ones when given (a
\* duration of 0 included) and this node's otherwise; this node is not modified.
C6_ContinueTo ==
    [][ (nops' = nops + 1 /\ last'.op = "continueTo" /\ ~last'.threw) =>
          LET this == nodes[last'.a]
              new == nodes'[last'.ret]
              args == last'.args
          IN /\ last'.ret = Len(nodes) + 1
             /\ Len(nodes') = Len(nodes) + 1
             /\ new.dependsOn = <<last'.a>>
             /\ new.startParams = Null
             /\ new.ease = (IF args.ease = Omitted THEN this.ease ELSE args.ease[1])
             /\ new.duration =
                   (IF args.duration = Omitted THEN this.duration ELSE args.duration[1])
             /\ \A i \in 1 .. Len(nodes) : nodes'[i] = nodes[i] ]_vars

C6_Witness ==
    /\ last.op = "continueTo"
    /\ ~last.threw
    /\ last.args.duration = Given(0)
    /\ nodes[last.a].duration # 0
    /\ nodes[last.ret].duration = 0

\* C8: constructing a node with an array of start or end params whose length
\* differs from the element group's item count throws, and then no node is
\* built and no element is written.
C8_CardinalityThrows ==
    [][ (nops' = nops + 1 /\ last'.op \in {"new", "continueTo"} /\ Mismatched(last'.args)) =>
          /\ last'.threw
          /\ nodes' = nodes
          /\ writes' = writes ]_vars

C8_Witness ==
    /\ last.op = "new"
    /\ last.threw
    /\ ~IsArray(last.args.startParams)
    /\ IsArray(last.args.endParams)
    /\ Len(last.args.endParams.v) # Size(last.args.selection)

----------------------------------------------------------------------------
(* Vec, Line and Rect. Coordinates are integers: the layouts explored keep
   every quotient exact, rotations are multiples of 90 degrees, and the
   tolerance Line.epsilon = 0.001 is smaller than one unit. *)

Vec(x, y) == <<x, y>>

VAdd(u, v) == <<u[1] + v[1], u[2] + v[2]>>
VSub(u, v) == <<u[1] - v[1], u[2] - v[2]>>
\* a neg that returns the vector itself
VKeep(u) == u

VNeg(u) == <<-u[1], -u[2]>>
VMult(u, v) == <<u[1] * v[1], u[2] * v[2]>>

\* a quotient of the program, exact on the layouts explored
Quot(a, b) == IF a >= 0 THEN a \div b ELSE -((-a) \div b)

VDiv(u, v) == <<Quot(u[1], v[1]), Quot(u[2], v[2])>>

Min(a, b) == IF a < b THEN a ELSE b
Max(a, b) == IF a > b THEN a ELSE b

\* Vec.clamp: Math.min ( Math.max ( this.x, lo.x ), hi.x )
\* a clamp that returns the vector itself
VNoClamp(u, lo, hi) == u

VClamp(u, lo, hi) == <<Min(Max(u[1], lo[1]), hi[1]), Min(Max(u[2], lo[2]), hi[2])>>

\* Math.cos and Math.sin of Vec.rad ( deg ), for deg a multiple of 90
Cos(deg) ==
    LET q == (deg \div 90) % 4 IN IF q = 0 THEN 1 ELSE IF q = 2 THEN -1 ELSE 0
Sin(deg) ==
    LET q == (deg \div 90) % 4 IN IF q = 1 THEN 1 ELSE IF q = 3 THEN -1 ELSE 0

\* Vec.rotate
VRotate(u, deg) ==
    <<u[1] * Cos(deg) - u[2] * Sin(deg), u[1] * Sin(deg) + u[2] * Cos(deg)>>

\* Line._reset: a line keeps its two end points; its coefficients and its
\* bounding box are recomputed from them on every change
Line(p1, p2) == [p1 |-> p1, p2 |-> p2]
LineA(l) == l.p1[2] - l.p2[2]
LineB(l) == l.p2[1] - l.p1[1]
LineC(l) == l.p1[1] * l.p2[2] - l.p2[1] * l.p1[2]
DomMin(l) == <<Min(l.p1[1], l.p2[1]), Min(l.p1[2], l.p2[2])>>
DomMax(l) == <<Max(l.p1[1], l.p2[1]), Max(l.p1[2], l.p2[2])>>

\* Line.rotate
LineRotate(l, center, deg) ==
    Line(VAdd(VRotate(VSub(l.p1, center), deg), center),
         VAdd(VRotate(VSub(l.p2, center), deg), center))

\* Line.translate
LineTranslate(l, amount) == Line(VAdd(l.p1, amount), VAdd(l.p2, amount))

\* Line.implicit
Implicit(l, point) == LineA(l) * point[1] + LineB(l) * point[2] + LineC(l)

\* v > lo - Line.epsilon && v < hi + Line.epsilon, on integers
WithinEps(v, lo, hi) == v >= lo /\ v <= hi

\* Line.intercept: << >> for null, <<point>> otherwise. A zero determinant
\* makes x and y infinite or NaN, which isFinite rejects.
Intercept(this, other) ==
    LET detX == LineA(this) * LineB(other) - LineB(this) * LineA(other)
        detY == LineB(this) * LineA(other) - LineA(this) * LineB(other)
    IN IF detX = 0 \/ detY = 0 THEN << >>
       ELSE LET x == Quot(LineB(this) * LineC(other) - LineB(other) * LineC(this), detX)
                y == Quot(LineA(this) * LineC(other) - LineA(other) * LineC(this), detY)
            IN IF /\ WithinEps(x, DomMin(this)[1], DomMax(this)[1])
                  /\ WithinEps(x, DomMin(other)[1], DomMax(other)[1])
                  /\ WithinEps(y, DomMin(this)[2], DomMax(this)[2])
                  /\ WithinEps(y, DomMin(other)[2], DomMax(other)[2])
               THEN << <<x, y>> >>
               ELSE << >>

\* Rect.constructor: boarders are [top, bottom, left, right]
Rect(center, size) ==
    LET radius == VDiv(size, <<2, 2>>) IN
    [ center |-> center,
      size |-> size,
      boarders |-> <<
          Line(VAdd(center, <<-radius[1], -radius[2]>>), VAdd(center, << radius[1], -radius[2]>>)),
          Line(VAdd(center, <<-radius[1],  radius[2]>>), VAdd(center, << radius[1],  radius[2]>>)),
          Line(VAdd(center, <<-radius[1],  radius[2]>>), VAdd(center, <<-radius[1], -radius[2]>>)),
          Line(VAdd(center, << radius[1],  radius[2]>>), VAdd(center, << radius[1], -radius[2]>>)) >> ]

\* Rect.corners
Corners(rect) ==
    << rect.boarders[1].p1, rect.boarders[1].p2, rect.boarders[2].p1, rect.boarders[2].p2 >>

\* Rect.translate
RectTranslate(rect, amount) ==
    [ center |-> VAdd(rect.center, amount),
      size |-> rect.size,
      boarders |-> [i \in 1 .. 4 |-> LineTranslate(rect.boarders[i], amount)] ]

\* Rect.rotate
RectRotate(rect, deg) ==
    [ rect EXCEPT !.boarders = [i \in 1 .. 4 |-> LineRotate(rect.boarders[i], rect.center, deg)] ]

\* Rect.containsPoint
ContainsPoint(rect, point) ==
    /\ Implicit(rect.boarders[1], point) * Implicit(rect.boarders[2], point) <= 0
    /\ Implicit(rect.boarders[3], point) * Implicit(rect.boarders[4], point) <= 0

RECURSIVE Flatten(_)
Flatten(seqs) == IF seqs = << >> THEN << >> ELSE Head(seqs) \o Flatten(Tail(seqs))

\* Rect.allIntercepts: the corners for the rectangle itself, otherwise the
\* intercepts of every boarder of this with every boarder of rect, in loop order
AllIntercepts(this, rect, same) ==
    IF same THEN Corners(this)
    ELSE Flatten([k \in 1 .. 16 |->
            Intercept(this.boarders[((k - 1) \div 4) + 1], rect.boarders[((k - 1) % 4) + 1])])

----------------------------------------------------------------------------
(* Dealer.createAnimation and Dealer._generateNoise *)

\* Math.ceil ( a / b ) for a >= 0, b > 0
Ceil(a, b) == (a + b - 1) \div b

\* a grid with its axes exchanged
MinGridSwapped(cfg) ==
    <<Ceil(cfg.dealSize[2], cfg.cardSize[2]), Ceil(cfg.dealSize[1], cfg.cardSize[1])>>

\* createAnimation: the minimum grid of cards required to cover the deal area
MinGrid(cfg) ==
    <<Ceil(cfg.dealSize[1], cfg.cardSize[1]), Ceil(cfg.dealSize[2], cfg.cardSize[2])>>

\* A createAnimation that also rejects a grid needing every card
CannotCoverOrEqual(cfg) == MinGrid(cfg)[1] * MinGrid(cfg)[2] >= cfg.cards

\* createAnimation: "Throw if we cannot cover the deal area"
CannotCover(cfg) == MinGrid(cfg)[1] * MinGrid(cfg)[2] > cfg.cards

\* createAnimation: the card margin when positioning
Margin(cfg) ==
    VDiv(VSub(VMult(MinGrid(cfg), cfg.cardSize), cfg.dealSize), VAdd(MinGrid(cfg), <<1, 1>>))

AnimParams(position, size, rotation) ==
    [position |-> position, size |-> size, rotation |-> rotation]

\* new Array ( n ): every slot empty
Empty == [position |-> << >>, size |-> << >>, rotation |-> 0]
NewArray(n) == [k \in 1 .. n |-> Empty]

\* an assignment that lands one slot too far
ArraySetNext(array, index, value) ==
    [k \in 1 .. (IF Len(array) > index + 2 THEN Len(array) ELSE index + 2) |->
        IF k = index + 2 THEN value ELSE IF k <= Len(array) THEN array[k] ELSE Empty]

\* array [ index ] = value, for a 0-based index; writing past the end grows
\* the array
ArraySet(array, index, value) ==
    [k \in 1 .. Max(Len(array), index + 1) |->
        IF k = index + 1 THEN value ELSE IF k <= Len(array) THEN array[k] ELSE Empty]

\* createAnimation: "Initially distribute some cards", the loops over i and j
RECURSIVE SeedGrid(_, _, _, _)
SeedGrid(cfg, endParams, i, j) ==
    LET minGrid == MinGrid(cfg)
        margin == Margin(cfg)
    IN IF i >= minGrid[1] THEN endParams
       ELSE IF j >= minGrid[2] THEN SeedGrid(cfg, endParams, i + 1, 0)
       ELSE SeedGrid(cfg,
                ArraySet(endParams, minGrid[2] * i + j,
                    AnimParams(
                        VAdd(VSub(cfg.dealPos, margin),
                             VMult(VSub(cfg.cardSize, margin), <<i, j>>)),
                        cfg.cardSize, 0)),
                i, j + 1)

\* createAnimation: "Completely randomly distribute the remaining cards";
\* random[i] is the draw made for the card of 0-based index i
RECURSIVE SeedRest(_, _, _, _)
SeedRest(cfg, endParams, i, random) ==
    IF i >= cfg.cards THEN endParams
    ELSE SeedRest(cfg,
            ArraySet(endParams, i,
                AnimParams(
                    VAdd(cfg.dealPos,
                         VDiv(VMult(VSub(cfg.dealSize, cfg.cardSize), <<random[i], random[i]>>),
                              <<4, 4>>)),
                    cfg.cardSize, 0)),
            i + 1, random)

\* the 0-based indices of the cards placed at random
RestIndices(cfg) == (MinGrid(cfg)[1] * MinGrid(cfg)[2]) .. (cfg.cards - 1)

\* _generateNoise: the rectangle of the deal area
DealRect(cfg) == Rect(VAdd(cfg.dealPos, VDiv(cfg.dealSize, <<2, 2>>)), cfg.dealSize)

\* _generateNoise: the rectangles of the cards
CardRects(cfg, endParams) ==
    [k \in 1 .. Len(endParams) |->
        Rect(VAdd(endParams[k].position, VDiv(cfg.cardSize, <<2, 2>>)), cfg.cardSize)]

\* A Rect referenced from an intercept entry: 0 is the deal area, k the k-th card
RectOf(cfg, cardRects, id) == IF id = 0 THEN DealRect(cfg) ELSE cardRects[id]

\* intercept.rect1.allIntercepts ( intercept.rect2 )
EntryPoints(cfg, cardRects, entry) ==
    AllIntercepts(RectOf(cfg, cardRects, entry.rect1), RectOf(cfg, cardRects, entry.rect2),
                  entry.rect1 = entry.rect2)

NewEntry(cfg, cardRects, rect1, rect2) ==
    LET entry == [rect1 |-> rect1, rect2 |-> rect2, points |-> << >>, oldPoints |-> << >>]
    IN [entry EXCEPT !.points = EntryPoints(cfg, cardRects, entry)]

\* _generateNoise: "Calculate all intercepts between all cards". acc holds
\* intercepts and interceptsByCard, the latter as indices into the former.
\* The inner loop starts at j = i, so the entry of a card with itself is pushed
\* twice on that card's list.
RECURSIVE AllEntries(_, _, _, _, _)
AllEntries(cfg, cardRects, acc, i, j) ==
    LET n == Len(cardRects) IN
    IF i > n THEN acc
    ELSE IF j = 0
    THEN LET idx == Len(acc.intercepts) + 1
         IN AllEntries(cfg, cardRects,
                [ intercepts |-> Append(acc.intercepts, NewEntry(cfg, cardRects, i, 0)),
                  byCard |-> [acc.byCard EXCEPT ![i] = Append(@, idx)] ],
                i, i)
    ELSE IF j > n THEN AllEntries(cfg, cardRects, acc, i + 1, 0)
    ELSE LET idx == Len(acc.intercepts) + 1
             pushed == [acc.byCard EXCEPT ![i] = Append(@, idx)]
         IN AllEntries(cfg, cardRects,
                [ intercepts |-> Append(acc.intercepts, NewEntry(cfg, cardRects, i, j)),
                  byCard |-> [pushed EXCEPT ![j] = Append(@, idx)] ],
                i, j + 1)

\* _generateNoise: "Update the victim's intercepts", entry by entry
RECURSIVE UpdateEntries(_, _, _, _, _)
UpdateEntries(cfg, cardRects, intercepts, list, k) ==
    IF k > Len(list) THEN intercepts
    ELSE LET e == intercepts[list[k]]
         IN UpdateEntries(cfg, cardRects,
                [intercepts EXCEPT ![list[k]] =
                    [e EXCEPT !.oldPoints = e.points,
                              !.points = EntryPoints(cfg, cardRects, e)]],
                list, k + 1)

\* _generateNoise: the rollback "intercept.points = intercept.oldPoints"
RECURSIVE RestoreEntries(_, _, _)
RestoreEntries(intercepts, list, k) ==
    IF k > Len(list) THEN intercepts
    ELSE RestoreEntries(
            [intercepts EXCEPT ![list[k]].points = intercepts[list[k]].oldPoints],
            list, k + 1)

\* _generateNoise: "Test whether the point is covered"
Covered(cardRects, entry, point) ==
    \E r \in 1 .. Len(cardRects) :
        /\ entry.rect1 # r
        /\ entry.rect2 # r
        /\ ContainsPoint(cardRects[r], point)

\* _generateNoise: "Check for bad points"
BadNoise(cfg, cardRects, intercepts) ==
    \E e \in 1 .. Len(intercepts) :
        \E k \in 1 .. Len(intercepts[e].points) :
            /\ ContainsPoint(DealRect(cfg), intercepts[e].points[k])
            /\ ~Covered(cardRects, intercepts[e], intercepts[e].points[k])

\* _generateNoise: rand () = Math.random () * 2 - 1 is ( k - 2 ) / 2, and the
\* translation is Vec ( rand (), rand () ) times
\* cardSize.x + cardSize.y * 0.5 * transJitter, clamped. transJitter is the
\* fraction tj[1] / tj[2].
Translation(cfg, center, kx, ky) ==
    LET tj == cfg.transJitter
        scaled == 2 * tj[2] * cfg.cardSize[1] + cfg.cardSize[2] * tj[1]
        raw == <<Quot((kx - 2) * scaled, 4 * tj[2]), Quot((ky - 2) * scaled, 4 * tj[2])>>
    IN VClamp(raw, VSub(cfg.dealPos, center),
              VSub(VAdd(cfg.dealPos, cfg.dealSize), center))

\* a rotation that carries over the rotation of the trial before
RotationCarried(cfg, kr) == Quot((kr - 2) * cfg.rotJitter, 2) + dealer.trial.rot

\* _generateNoise: rot = rand () * rotJitter, in degrees
Rotation(cfg, kr) == Quot((kr - 2) * cfg.rotJitter, 2)

\* an exchange that only copies endParams [ j ] to endParams [ i ]
SwapCopy(endParams, i, j) == [endParams EXCEPT ![i + 1] = endParams[j + 1]]

\* createAnimation: [ endParams [ i ], endParams [ j ] ] =
\* [ endParams [ j ], endParams [ i ] ], for 0-based i and j
Swap(endParams, i, j) ==
    [endParams EXCEPT ![i + 1] = endParams[j + 1], ![j + 1] = endParams[i + 1]]

\* createAnimation: "Permute the end parameters", the loop from
\* minGrid.x * minGrid.y - 1 down to 1; random[i] is the draw made at index i
\* and j = Math.floor ( Math.random () * ( i + 1 ) )
RECURSIVE Permute(_, _, _)
Permute(endParams, i, random) ==
    IF i <= 0 THEN endParams
    ELSE LET j == (random[i] * (i + 1)) \div 4
         IN Permute(Swap(endParams, i, j), i - 1, random)

NoTrial == [victim |-> 0, trans |-> <<0, 0>>, rot |-> 0, bad |-> FALSE]

\* what has happened to a card so far: the trials run on it, those committed
\* and the rotations of the committed ones
NoHistory == [trials |-> 0, commits |-> 0, rot |-> 0]

\* new Dealer ( cards, cardSize, dealPos, dealSize, dealOrigin ), with the
\* arguments createAnimation will be called with
NewDealer(cfg) ==
    [ pc |-> "idle", cfg |-> cfg, endParams |-> << >>, cardRects |-> << >>,
      intercepts |-> << >>, byCard |-> << >>, its |-> 0, victim |-> 0, draws |-> 0,
      trial |-> NoTrial, seed |-> << >>, history |-> [k \in 1 .. cfg.cards |-> NoHistory],
      seedDrawn |-> << >>, drawn |-> << >> ]

\* createAnimation: the seed layout, the grid and then the cards placed at
\* random. random holds the draws for the latter.
SeedLayout(d, random) ==
    LET endParams ==
            SeedRest(d.cfg, SeedGrid(d.cfg, NewArray(d.cfg.cards), 0, 0),
                     MinGrid(d.cfg)[1] * MinGrid(d.cfg)[2], random)
    IN [d EXCEPT
          !.pc = "seeded",
          !.endParams = endParams,
          !.seed = endParams,
          !.seedDrawn = random,
          !.draws = Cardinality(RestIndices(d.cfg))]

\* createAnimation up to the call of _generateNoise: the check, then the seed
\* layout
CreateAnimation(random) ==
    /\ dealer.pc = "idle"
    /\ IF CannotCover(dealer.cfg)
       THEN dealer' = [dealer EXCEPT !.pc = "thrown"]
       ELSE dealer' = SeedLayout(dealer, random)
    /\ UNCHANGED << nodes, promises, promiseObjs, animated, animateCount, fired, writes, now,
                    nops, last, attached, followed, gridManager, popupManager, cardFaceManager, countdown >>

\* _generateNoise: the rectangles of the cards and the intercept cache
BuildCache(d) ==
    LET cardRects == CardRects(d.cfg, d.endParams)
        acc == AllEntries(d.cfg, cardRects,
                   [intercepts |-> << >>, byCard |-> [k \in 1 .. Len(cardRects) |-> << >>]],
                   1, 0)
    IN [d EXCEPT
          !.pc = IF d.cfg.iters > 0 /\ Len(cardRects) > 0 THEN "jitter" ELSE "jittered",
          !.cardRects = cardRects,
          !.intercepts = acc.intercepts,
          !.byCard = acc.byCard,
          !.its = 0,
          !.victim = 1]

\* _generateNoise up to its main loop
GenerateNoise ==
    /\ dealer.pc = "seeded"
    /\ dealer' = BuildCache(dealer)
    /\ UNCHANGED << nodes, promises, promiseObjs, animated, animateCount, fired, writes, now,
                    nops, last, attached, followed, gridManager, popupManager, cardFaceManager, countdown >>

\* a commit that stores the rotation of the trial alone
CommitReplace(param, trans, rot) ==
    AnimParams(VAdd(param.position, trans), param.size, rot)

\* _generateNoise: the placement a committed trial stores for the victim
Commit(param, trans, rot) ==
    AnimParams(VAdd(param.position, trans), param.size, param.rotation + rot)

\* a loop that stores the placement of the trial whether it was bad or not
StoreAlways(endParams, victim, trans, rot, badNoise) ==
    [endParams EXCEPT ![victim] = Commit(@, trans, rot)]

\* _generateNoise: the placements after the trial: untouched "if it was bad.
\* Otherwise, commit it."
Store(endParams, victim, trans, rot, badNoise) ==
    IF badNoise THEN endParams ELSE [endParams EXCEPT ![victim] = Commit(@, trans, rot)]

\* _generateNoise: "Undo the movement, if it was bad. Otherwise, commit it.",
\* then the loop counters
Settle(d, trans, rot, moved, updated, badNoise) ==
    LET victim == d.victim
        last_ == victim = Len(d.cardRects)
    IN [d EXCEPT
          !.cardRects = IF badNoise
                        THEN [moved EXCEPT ![victim] =
                                  RectTranslate(RectRotate(@, -rot), VNeg(trans))]
                        ELSE moved,
          !.intercepts = IF badNoise
                         THEN RestoreEntries(updated, d.byCard[victim], 1)
                         ELSE updated,
          !.endParams = Store(@, victim, trans, rot, badNoise),
          !.history = [@ EXCEPT ![victim] =
                          [ trials |-> @.trials + 1,
                            commits |-> IF badNoise THEN @.commits ELSE @.commits + 1,
                            rot |-> IF badNoise THEN @.rot ELSE @.rot + rot ]],
          !.draws = @ + 3,
          !.trial = [victim |-> victim, trans |-> trans, rot |-> rot, bad |-> badNoise],
          !.victim = IF last_ THEN 1 ELSE victim + 1,
          !.its = IF last_ THEN @ + 1 ELSE @,
          !.pc = IF last_ /\ d.its + 1 >= d.cfg.iters THEN "jittered" ELSE "jitter"]

\* _generateNoise: the check of the moved layout against the updated cache
Check(d, trans, rot, moved, updated) ==
    Settle(d, trans, rot, moved, updated, BadNoise(d.cfg, moved, updated))

\* _generateNoise: "Move the victim", then "Update the victim's intercepts"
Move(d, trans, rot, moved) ==
    Check(d, trans, rot, moved, UpdateEntries(d.cfg, moved, d.intercepts, d.byCard[d.victim], 1))

\* _generateNoise: one pass of the body of the loop over victims, for the
\* translation and rotation drawn
TrialWith(d, trans, rot) ==
    Move(d, trans, rot,
         [d.cardRects EXCEPT ![d.victim] = RectRotate(RectTranslate(@, trans), rot)])

\* _generateNoise: the body of the loop over victims for the three draws kx,
\* ky and kr of Math.random (), which are kept in the order drawn
TrialOf(d, kx, ky, kr) ==
    [TrialWith(d, Translation(d.cfg, d.cardRects[d.victim].center, kx, ky), Rotation(d.cfg, kr))
        EXCEPT !.drawn = Append(@, <<kx, ky, kr>>)]

\* One pass of the body of the loop over victims: the trial move, the update
\* of the victim's intercepts, the check, then the rollback or the commit.
Trial(kx, ky, kr) ==
    /\ dealer.pc = "jitter"
    /\ dealer' = TrialOf(dealer, kx, ky, kr)
    /\ UNCHANGED << nodes, promises, promiseObjs, animated, animateCount, fired, writes, now,
                    nops, last, attached, followed, gridManager, popupManager, cardFaceManager, countdown >>

\* createAnimation: the permutation of the seeded placements
Shuffle(random) ==
    /\ dealer.pc = "jittered"
    /\ LET seeded == MinGrid(dealer.cfg)[1] * MinGrid(dealer.cfg)[2]
       IN dealer' = [dealer EXCEPT
                !.pc = "shuffled",
                !.endParams = Permute(@, seeded - 1, random),
                !.draws = @ + Max(seeded - 1, 0)]
    /\ UNCHANGED << nodes, promises, promiseObjs, animated, animateCount, fired, writes, now,
                    nops, last, attached, followed, gridManager, popupManager, cardFaceManager, countdown >>

\* a node pair whose first node does not wait
CardNodesAtOnce(cfg, endParams, i, base) ==
    << NewNode("CardAnim", Selection("card", 1),
               [k |-> "obj", v |-> <<AnimParams(cfg.dealOrigin, cfg.cardSize, 0)>>], Null,
               "sinOut", 0, << >>, << >>),
       NewNode("CardAnim", Selection("card", 1), Null,
               [k |-> "obj", v |-> <<endParams[i + 1]>>],
               "sinOut", cfg.dealDuration, <<base + 1>>, << >>) >>

\* the node pair of the card of 0-based index i: new CardAnim ( d3.select (
\* this ), startParams [ i ], null, ease, i * dealDelay ).continueTo (
\* endParams [ i ], ease, dealDuration ); the second is animations [ i ]
CardNodes(cfg, endParams, i, base) ==
    << NewNode("CardAnim", Selection("card", 1),
               [k |-> "obj", v |-> <<AnimParams(cfg.dealOrigin, cfg.cardSize, 0)>>], Null,
               "sinOut", i * cfg.dealDelay, << >>, << >>),
       NewNode("CardAnim", Selection("card", 1), Null,
               [k |-> "obj", v |-> <<endParams[i + 1]>>],
               "sinOut", cfg.dealDuration, <<base + 1>>, << >>) >>

RECURSIVE AllCardNodes(_, _, _, _)
AllCardNodes(cfg, endParams, i, heap) ==
    IF i >= cfg.cards THEN heap
    ELSE AllCardNodes(cfg, endParams, i + 1,
                      heap \o CardNodes(cfg, endParams, i, Len(heap)))

\* an array that holds the first node of every card instead of the node
\* continueTo returns
AnimationsFirstLeg(cfg) == [i \in 1 .. cfg.cards |-> 2 * i - 1]

\* createAnimation: the array animations; animations [ i ] is the node
\* continueTo returns for the card of index i, the second of its pair
Animations(cfg) == [i \in 1 .. cfg.cards |-> 2 * i]

\* createAnimation: the start parameters, the animations of the cards and
\* the final CardAnim.Delay ( this._cards, d3.easeSinOut, 0, animations )
BuildAnimation ==
    /\ dealer.pc = "shuffled"
    /\ LET cfg == dealer.cfg
           heap == AllCardNodes(cfg, dealer.endParams, 0, << >>)
           animations == Animations(cfg)
           all == Append(heap, NewDelay(Selection("cards", cfg.cards), "sinOut", 0, animations))
       IN /\ nodes' = all
          /\ attached' = [n \in 1 .. Len(all) |-> << >>]
          /\ last' = [op |-> "createAnimation", a |-> 0, b |-> 0, ret |-> Len(all),
                      threw |-> FALSE, args |-> NoArgs]
    /\ dealer' = [dealer EXCEPT !.pc = "built"]
    /\ UNCHANGED << promises, promiseObjs, animated, animateCount, fired, writes, now, nops,
                    followed, gridManager, popupManager, cardFaceManager, countdown >>

----------------------------------------------------------------------------
(* Specification of the Dealer *)

\* The layouts explored. random is the set of values Math.random () takes, in
\* quarters; transJitter is a fraction; rotJitter is in degrees.
DealBase ==
    [ cardSize |-> <<16, 16>>, dealPos |-> <<0, 0>>, dealSize |-> <<16, 16>>,
      dealOrigin |-> <<-32, -32>>, cards |-> 1, transJitter |-> <<1, 2>>,
      rotJitter |-> 180, iters |-> 1, dealDelay |-> 1, dealDuration |-> 1,
      random |-> {0, 2, 3} ]

DealConfigs ==
    { DealBase,
      [DealBase EXCEPT !.dealSize = <<8, 8>>, !.cards = 2],
      [DealBase EXCEPT !.dealSize = <<20, 8>>, !.cards = 2],
      [DealBase EXCEPT !.dealSize = <<20, 8>>, !.cards = 2, !.iters = 2, !.random = {0, 3}],
      [DealBase EXCEPT !.dealSize = <<32, 16>>, !.cards = 1],
      [DealBase EXCEPT !.dealSize = <<20, 20>>, !.cards = 3],
      [DealBase EXCEPT !.dealSize = <<8, 8>>, !.cards = 2, !.iters = 2, !.random = {0, 3}],
      [DealBase EXCEPT !.dealSize = <<20, 20>>, !.cards = 4, !.random = {0}],
      [DealBase EXCEPT !.cardSize = <<100, 100>>, !.dealSize = <<300, 200>>, !.cards = 6,
                       !.random = {0}],
      [DealBase EXCEPT !.dealSize = <<20, 8>>, !.cards = 3, !.random = {0, 3}] }

InitDeal ==
    /\ nodes = << >>
    /\ promises = << >>
    /\ promiseObjs = << >>
    /\ animated = 0
    /\ animateCount = << >>
    /\ fired = << >>
    /\ writes = {}
    /\ now = 0
    /\ nops = 0
    /\ last = NoCall
    /\ attached = << >>
    /\ followed = {}
    /\ popupManager = NoPopupManager
    /\ cardFaceManager = NoCardFaceManager
    /\ countdown = NoCountdown
    /\ \E cfg \in DealConfigs : dealer = NewDealer(cfg)
    /\ gridManager = NoGridManager

NextDeal ==
    \/ \E random \in [RestIndices(dealer.cfg) -> dealer.cfg.random] : CreateAnimation(random)
    \/ GenerateNoise
    \/ \E kx \in dealer.cfg.random, ky \in dealer.cfg.random, kr \in dealer.cfg.random :
          Trial(kx, ky, kr)
    \/ \E random \in [1 .. (MinGrid(dealer.cfg)[1] * MinGrid(dealer.cfg)[2] - 1) -> dealer.cfg.random] :
          Shuffle(random)
    \/ BuildAnimation

SpecDeal == InitDeal /\ [][NextDeal]_vars

----------------------------------------------------------------------------
(* Specification of a deal and its flight: createAnimation, then callbacks
   added to the node it returned, then animate () on that node *)

FlightConfigs ==
    { [DealBase EXCEPT !.random = {0}],
      [DealBase EXCEPT !.dealSize = <<8, 8>>, !.cards = 2, !.random = {0}] }

InitFlight ==
    /\ nodes = << >>
    /\ promises = << >>
    /\ promiseObjs = << >>
    /\ animated = 0
    /\ animateCount = << >>
    /\ fired = << >>
    /\ writes = {}
    /\ now = 0
    /\ nops = 0
    /\ last = NoCall
    /\ attached = << >>
    /\ followed = {}
    /\ popupManager = NoPopupManager
    /\ cardFaceManager = NoCardFaceManager
    /\ countdown = NoCountdown
    /\ \E cfg \in FlightConfigs : dealer = NewDealer(cfg)
    /\ gridManager = NoGridManager

NextFlight ==
    \/ NextDeal
    \/ \E f \in Fns : dealer.pc = "built" /\ AddCallback(Len(nodes), f)
    \/ dealer.pc = "built" /\ Animate(Len(nodes))
    \/ \E p \in 1 .. Len(promiseObjs) : RunAnimate(p)
    \/ \E p \in 1 .. Len(promiseObjs) : ApplyEnd(p)
    \/ \E p \in 1 .. Len(promiseObjs) : OwnDone(p)
    \/ \E p \in 1 .. Len(promiseObjs) : RunCallback(p)
    \/ Tick

SpecFlight == InitFlight /\ [][NextFlight]_vars

----------------------------------------------------------------------------
(* Properties of the Dealer *)

\* the least number of whole b that reach a
CeilOf(a, b) == CHOOSE k \in 0 .. a : k * b >= a /\ \A j \in 0 .. a : j * b >= a => k <= j

\* the cards the seed grid needs
Needed ==
    CeilOf(dealer.cfg.dealSize[1], dealer.cfg.cardSize[1])
        * CeilOf(dealer.cfg.dealSize[2], dealer.cfg.cardSize[2])

\* C9: createAnimation throws exactly when the seed grid needs more cards
\* than there are, and it throws before a random number is drawn, a placement
\* is computed, an animation node is created or an element is written.
C9_ThrowsBeforeAnyEffect ==
    /\ dealer.pc = "thrown" =>
          /\ Needed > dealer.cfg.cards
          /\ dealer.draws = 0
          /\ dealer.endParams = << >>
          /\ dealer.cardRects = << >>
          /\ dealer.intercepts = << >>
          /\ nodes = << >>
          /\ promises = << >>
          /\ writes = {}
    /\ dealer.pc \notin {"idle", "thrown"} => Needed <= dealer.cfg.cards

C9_Witness == dealer.pc = "thrown" /\ Needed > dealer.cfg.cards

\* The rectangles of the layouts explored are axis-aligned: a point is inside
\* one when it lies within the span of its corners on both axes.
InsideBox(rect, point) ==
    LET c == Corners(rect)
        xs == {c[k][1] : k \in 1 .. 4}
        ys == {c[k][2] : k \in 1 .. 4}
    IN /\ \E x \in xs : x <= point[1]
       /\ \E x \in xs : x >= point[1]
       /\ \E y \in ys : y <= point[2]
       /\ \E y \in ys : y >= point[2]

\* the sample points of a cache entry that lie inside the deal area and in no
\* card other than the rectangles of the entry
Uncovered(entry) ==
    {k \in 1 .. Len(entry.points) :
        /\ InsideBox(DealRect(dealer.cfg), entry.points[k])
        /\ \A r \in 1 .. Len(dealer.cardRects) :
              (r # entry.rect1 /\ r # entry.rect2) =>
                  ~InsideBox(dealer.cardRects[r], entry.points[k])}

JitterOver == dealer.pc \in {"jittered", "shuffled", "built"}

\* C10: after the jitter loop every cached sample point inside the deal area
\* lies in at least one card other than the rectangles that produced it.
C10_FinalLayoutCovered ==
    JitterOver => \A e \in 1 .. Len(dealer.intercepts) : Uncovered(dealer.intercepts[e]) = {}

----------------------------------------------------------------------------
(* Properties of the jitter trials *)

\* a step that runs one trial
TrialStep == dealer.pc = "jitter" /\ dealer' # dealer

\* the layout a trial step tries: the victim translated, then rotated
Tried ==
    [dealer.cardRects EXCEPT
        ![dealer.victim] = RectRotate(RectTranslate(@, dealer'.trial.trans), dealer'.trial.rot)]

\* the sample points of the pair of an entry, computed from a layout
SamplePoints(cardRects, entry) ==
    LET points == EntryPoints(dealer.cfg, cardRects, entry)
    IN {points[k] : k \in 1 .. Len(points)}

\* a layout has a gap: a sample point inside the deal area that lies in no
\* card other than the rectangles that produced it
Gap(cardRects) ==
    \E e \in 1 .. Len(dealer.intercepts) :
        \E point \in SamplePoints(cardRects, dealer.intercepts[e]) :
            /\ InsideBox(DealRect(dealer.cfg), point)
            /\ \A r \in 1 .. Len(cardRects) :
                  (r # dealer.intercepts[e].rect1 /\ r # dealer.intercepts[e].rect2) =>
                      ~InsideBox(cardRects[r], point)

\* C11: a trial is rejected exactly when the layout it tries has a gap, and
\* committed exactly when every sample point inside the deal area is covered.
C11_CommittedIffCovered ==
    [][TrialStep => (dealer'.trial.bad <=> Gap(Tried))]_vars

PointSet(entry) == {entry.points[k] : k \in 1 .. Len(entry.points)}

\* the entries of the cache that involve the victim of the trial
VictimEntries ==
    {e \in 1 .. Len(dealer.intercepts) :
        dealer.intercepts[e].rect1 = dealer.victim \/ dealer.intercepts[e].rect2 = dealer.victim}

\* C13: after a rejected trial every entry of the cache that involves the
\* victim, its self entry included, holds the point set it held before the
\* trial.
C13_RollbackRestoresCache ==
    [][TrialStep /\ dealer'.trial.bad =>
          \A e \in VictimEntries :
              PointSet(dealer'.intercepts[e]) = PointSet(dealer.intercepts[e])]_vars

BetweenTrials == dealer.pc \in {"jitter", "jittered"}

C15_PlacementFrame ==
    /\ [][TrialStep =>
            /\ dealer'.trial.bad => dealer'.endParams = dealer.endParams
            /\ \A i \in 1 .. Len(dealer.endParams) :
                  i # dealer.victim => dealer'.endParams[i] = dealer.endParams[i]]_vars
    /\ [](BetweenTrials =>
            \A i \in 1 .. Len(dealer.endParams) :
                dealer.history[i].commits = 0 => dealer.endParams[i] = dealer.seed[i])

\* the loop is over, one card had every trial rejected and another was moved
C15_Witness ==
    /\ dealer.pc = "jittered"
    /\ \E i \in 1 .. Len(dealer.endParams) :
          /\ dealer.history[i].trials >= 2
          /\ dealer.history[i].commits = 0
          /\ dealer.endParams[i] = dealer.seed[i]
    /\ \E i \in 1 .. Len(dealer.endParams) :
          /\ dealer.history[i].commits > 0
          /\ dealer.endParams[i] # dealer.seed[i]

RECURSIVE TrialsOf(_, _)
TrialsOf(history, i) == IF i = 0 THEN 0 ELSE history[i].trials + TrialsOf(history, i - 1)

\* the trials run so far
TrialsRun == TrialsOf(dealer.history, Len(dealer.history))

\* the indices minGrid.y * i + j of the seed grid, with the cells they come from
SeedCells ==
    LET mx == CeilOf(dealer.cfg.dealSize[1], dealer.cfg.cardSize[1])
        my == CeilOf(dealer.cfg.dealSize[2], dealer.cfg.cardSize[2])
    IN {<<my * i + j, i, j>> : i \in 0 .. mx - 1, j \in 0 .. my - 1}

Seeded == dealer.pc \in {"seeded", "jitter", "jittered", "shuffled", "built"}

\* the steps createAnimation has left in state d: the trials of the budget not
\* yet run, then the shuffle and the construction of the animation
StepsLeft(d) ==
    CASE d.pc = "idle" -> d.cfg.iters * d.cfg.cards + 4
      [] d.pc = "seeded" -> d.cfg.iters * d.cfg.cards + 3
      [] d.pc = "jitter" ->
            d.cfg.iters * d.cfg.cards - TrialsOf(d.history, Len(d.history)) + 2
      [] d.pc = "jittered" -> 2
      [] d.pc = "shuffled" -> 1
      [] OTHER -> 0

\* C16: for a valid configuration createAnimation ends after at most
\* iters * cardCount trials with exactly cardCount placements; the seed
\* indices cover 0 .. minGrid.x * minGrid.y - 1 once each and no slot of the
\* placement array is empty when the jitter starts.
C16_TerminatesWithAllPlacements ==
    /\ [](/\ {c[1] : c \in SeedCells} = 0 .. Needed - 1
          /\ \A c \in SeedCells, d \in SeedCells : c[1] = d[1] => c = d
          /\ TrialsRun <= dealer.cfg.iters * dealer.cfg.cards
          /\ StepsLeft(dealer) >= 0
          /\ Seeded =>
                /\ Len(dealer.endParams) = dealer.cfg.cards
                /\ \A k \in 1 .. Len(dealer.endParams) :
                      /\ dealer.endParams[k] # Empty
                      /\ Len(dealer.endParams[k].position) = Len(dealer.cfg.dealPos)
                /\ \A k \in 1 .. Needed, l \in 1 .. Needed :
                      k # l => dealer.seed[k].position # dealer.seed[l].position
          /\ JitterOver => TrialsRun = dealer.cfg.iters * dealer.cfg.cards
          /\ dealer.pc = "built" => Len(nodes) = dealer.cfg.cards + dealer.cfg.cards + 1)
    /\ [][StepsLeft(dealer') < StepsLeft(dealer)]_vars

\* a grid of two rows and two columns was seeded, jittered and returned
C16_Witness ==
    /\ dealer.pc = "built"
    /\ dealer.cfg.cards > 2
    /\ Cardinality({c[2] : c \in SeedCells}) > 1
    /\ Cardinality({c[3] : c \in SeedCells}) > 1
    /\ TrialsRun = dealer.cfg.iters * dealer.cfg.cards

\* the deal of six cards of 100 x 100 on an area of 300 x 200 at the origin
SixCards ==
    /\ dealer.cfg.dealPos = <<0, 0>>
    /\ dealer.cfg.dealSize = <<300, 200>>
    /\ dealer.cfg.cardSize = <<100, 100>>
    /\ dealer.cfg.cards = 6

\* C17: for a deal area of 300 x 200 at (0,0), cards of 100 x 100 and 6
\* cards, minGrid is (3,2), the margin is 0, all 6 placements come from the
\* seed grid, no card is placed at random and createAnimation does not throw.
C17_SixCardsExample ==
    SixCards =>
        /\ MinGrid(dealer.cfg) = <<3, 2>>
        /\ Margin(dealer.cfg) = <<0, 0>>
        /\ RestIndices(dealer.cfg) = {}
        /\ dealer.pc # "thrown"
        /\ Seeded =>
              /\ Len(dealer.seed) = 6
              /\ \A i \in 0 .. 2, j \in 0 .. 1 :
                    dealer.seed[2 * i + j + 1] =
                        [position |-> <<100 * i, 100 * j>>, size |-> <<100, 100>>, rotation |-> 0]
        /\ dealer.pc = "seeded" => dealer.draws = 0

\* createAnimation has returned the animation of the six cards
C17_Witness == SixCards /\ dealer.pc = "built" /\ Len(dealer.endParams) = 6

Abs(x) == IF x < 0 THEN -x ELSE x

\* C18: each component of the translation of a trial is at most
\* 0.5 * (cardWidth + cardHeight) * transJitter in absolute value.
C18_TranslationBound ==
    dealer.trial.victim > 0 =>
        \A axis \in 1 .. 2 :
            2 * dealer.cfg.transJitter[2] * Abs(dealer.trial.trans[axis])
                <= (dealer.cfg.cardSize[1] + dealer.cfg.cardSize[2]) * dealer.cfg.transJitter[1]

\* a point lies within the deal area on both axes
InDealArea(point) ==
    \A axis \in 1 .. 2 :
        /\ dealer.cfg.dealPos[axis] <= point[axis]
        /\ point[axis] <= dealer.cfg.dealPos[axis] + dealer.cfg.dealSize[axis]

\* C19: the layout a trial tries has the victim's centre within the deal
\* area on both axes, wherever the victim was before the trial.
C19_VictimCentreStaysInside ==
    [][TrialStep =>
          /\ InDealArea(Tried[dealer.victim].center)
          /\ InDealArea(VAdd(dealer.cardRects[dealer.victim].center, dealer'.trial.trans))]_vars

\* a committed trial whose translation was cut short by the clamp: it left
\* the victim's centre on the boundary of the deal area
C19_Witness ==
    /\ BetweenTrials
    /\ dealer.trial.victim > 0
    /\ ~dealer.trial.bad
    /\ dealer.trial.trans # <<0, 0>>
    /\ InDealArea(dealer.cardRects[dealer.trial.victim].center)
    /\ \E axis \in 1 .. 2 :
          \/ dealer.cardRects[dealer.trial.victim].center[axis] = dealer.cfg.dealPos[axis]
          \/ dealer.cardRects[dealer.trial.victim].center[axis]
               = dealer.cfg.dealPos[axis] + dealer.cfg.dealSize[axis]

\* C20: every card beyond the first minGrid.x * minGrid.y is seeded at a
\* position inside the deal area, also when the deal area is smaller than a
\* card.
C20_RestSeededInside ==
    Seeded =>
        \A k \in 1 .. Len(dealer.seed) :
            k > Needed => InDealArea(dealer.seed[k].position)

----------------------------------------------------------------------------
(* Properties of the shuffle and of the returned animation *)

\* a step that runs the shuffle
ShuffleStep == dealer.pc = "jittered" /\ dealer'.pc = "shuffled"

\* how often a placement occurs in an array of placements
Occurrences(endParams, param) == Cardinality({k \in 1 .. Len(endParams) : endParams[k] = param})

\* C21: the shuffle runs after the jitter and only reorders: the placements
\* after it are a permutation of those before it, only the first
\* minGrid.x * minGrid.y of them may change places, and no placement is
\* altered.
C21_ShuffleOnlyReorders ==
    /\ [][ShuffleStep =>
            /\ Len(dealer'.endParams) = Len(dealer.endParams)
            /\ \A k \in 1 .. Len(dealer.endParams) :
                  /\ Occurrences(dealer'.endParams, dealer.endParams[k])
                       = Occurrences(dealer.endParams, dealer.endParams[k])
                  /\ k > Needed => dealer'.endParams[k] = dealer.endParams[k]]_vars
    /\ [][dealer'.pc = "shuffled" => dealer.pc \in {"jittered", "shuffled"}]_vars
    /\ [](dealer.pc = "shuffled" => TrialsRun = dealer.cfg.iters * dealer.cfg.cards)

\* the shuffle moved a card no trial had moved, next to a card placed at random
C21_Witness ==
    /\ dealer.pc = "shuffled"
    /\ Len(dealer.endParams) > Needed
    /\ \E i \in 1 .. Needed :
          dealer.history[i].commits = 0 /\ dealer.endParams[i] # dealer.seed[i]

\* the trials of a run made again on d, with the draws of the run from the
\* k-th on
RECURSIVE Rerun(_, _, _)
Rerun(d, drawn, k) ==
    IF k > Len(drawn) \/ d.pc # "jitter" THEN d
    ELSE CHOOSE last_ \in {Rerun(next, drawn, k + 1) :
                               next \in {TrialOf(d, drawn[k][1], drawn[k][2], drawn[k][3])}} : TRUE

\* a second run of the jitter engine on the inputs of the run, with the
\* sequence of draws of the run
SecondRun ==
    CHOOSE last_ \in
        {Rerun(ready, dealer.drawn, 1) :
            ready \in {BuildCache(seeded) :
                          seeded \in {SeedLayout(NewDealer(dealer.cfg), dealer.seedDrawn)}}} : TRUE

Returned == Len(nodes)

\* the node of the flight of the card of index i - 1: the one continueTo made
Flight(i) == 2 * i

\* C23: a callback attached to the node createAnimation returned fires exactly
\* once, and only when the flight of every card has completed.
C23_AggregateCallback ==
    (dealer.pc = "built" /\ animated # 0) =>
        /\ animated = Returned
        /\ Len(fired[Returned]) <= Len(attached[Returned])
        /\ \A k \in 1 .. Len(fired[Returned]) :
              Cardinality({j \in 1 .. Len(fired[Returned]) :
                              fired[Returned][j] = fired[Returned][k]})
                = Cardinality({j \in 1 .. Len(attached[Returned]) :
                                 attached[Returned][j] = fired[Returned][k]})
        /\ fired[Returned] # << >> =>
              \A i \in 1 .. dealer.cfg.cards :
                  /\ Signalled(Flight(i))
                  /\ nodes[Flight(i)].endParams.v = <<dealer.endParams[i]>>
                  /\ <<Flight(i), "end">> \in writes \/ promiseObjs[promises[Flight(i)]].endTimer
        /\ Drained => Len(fired[Returned]) = Len(attached[Returned])

\* the callback has fired after the flights of several cards
C23_Witness ==
    /\ dealer.pc = "built"
    /\ animated # 0
    /\ dealer.cfg.cards > 1
    /\ attached[Returned] # << >>
    /\ fired[Returned] = attached[Returned]
    /\ \A i \in 1 .. dealer.cfg.cards : Signalled(Flight(i))

----------------------------------------------------------------------------
(* Specification of the scheduler on elements that other code animates too:
   Anim._animate waits on selection.transition () ... .end (), and D3 rejects
   that promise when the transition is interrupted or cancelled, which is what
   a later transition issued on the same elements does. *)

\* A later transition is issued on the elements of a running Anim step that
\* waits on transition.end (): that promise is rejected, so promise.then (
\* callback ) skips the callback and the promise of the node is rejected.
Interrupt(p) ==
    /\ promiseObjs[p].state = "running"
    /\ nodes[promiseObjs[p].node].kind = "Anim"
    /\ Truthy(nodes[promiseObjs[p].node].endParams)
    /\ promiseObjs' = [promiseObjs EXCEPT ![p].state = "rejected"]
    /\ UNCHANGED << nodes, promises, animated, animateCount, fired, writes, now,
                    nops, last, attached, followed, dealer, gridManager, popupManager, cardFaceManager, countdown >>

\* Promise.all ( depPromises ) is rejected as soon as one of the promises is:
\* .then ( () => this._animate () ) skips the step and is rejected in turn.
SkipAnimate(p) ==
    /\ promiseObjs[p].state = "waiting"
    /\ \E i \in 1 .. Len(promiseObjs[p].deps) :
          promiseObjs[promiseObjs[p].deps[i]].state = "rejected"
    /\ promiseObjs' = [promiseObjs EXCEPT ![p].state = "rejected"]
    /\ UNCHANGED << nodes, promises, animated, animateCount, fired, writes, now,
                    nops, last, attached, followed, dealer, gridManager, popupManager, cardFaceManager, countdown >>

NextShared ==
    \/ Next
    \/ \E p \in 1 .. Len(promiseObjs) : Interrupt(p)
    \/ \E p \in 1 .. Len(promiseObjs) : SkipAnimate(p)

SpecShared == Init /\ [][NextShared]_vars

\* No reaction, timer or transition is pending and no promise can change any
\* more: every event that was due has been delivered.
Delivered ==
    /\ Drained
    /\ \A p \in 1 .. Len(promiseObjs) :
          promiseObjs[p].state = "waiting" =>
              \A i \in 1 .. Len(promiseObjs[p].deps) :
                  promiseObjs[promiseObjs[p].deps[i]].state # "rejected"

\* C24: after animate () every node of the run starts, runs to completion and
\* fires its callback once every pending timer and transition event has been
\* delivered (each event moves a promise forward or advances the clock towards
\* a due time, so the events of a run are finitely many and "eventually" is
\* "when none is left"), whatever happens meanwhile, a later transition on the
\* same elements included; and a completion signal resolves only after the
\* signals of all predecessors and after the node's own duration.
C24_EveryNodeCompletes ==
    /\ Delivered =>
          \A n \in 1 .. Len(nodes) :
              InRun(n) => /\ animateCount[n] = 1
                          /\ Signalled(n)
                          /\ fired[n] = nodes[n].callback
    /\ \A n \in 1 .. Len(nodes) :
          (animated # 0 /\ Signalled(n)) =>
              /\ promiseObjs[promises[n]].doneAt >= promiseObjs[promises[n]].due
              /\ promiseObjs[promises[n]].due >= nodes[n].duration
              /\ \A i \in 1 .. Len(nodes[n].dependsOn) :
                    /\ Signalled(nodes[n].dependsOn[i])
                    /\ promiseObjs[promises[nodes[n].dependsOn[i]]].doneAt
                         <= promiseObjs[promises[n]].doneAt

\* the same statement for a run no later transition disturbs
C24_Undisturbed ==
    (\A p \in 1 .. Len(promiseObjs) : promiseObjs[p].state # "rejected")
        => C24_EveryNodeCompletes

----------------------------------------------------------------------------
(* GridManager, the variant with hideCards / showCards and the periodic
   refresh: the layout *)

GRID == "GRID"
HIDDEN == "HIDDEN"

\* static fractions of the viewport height and card counts, in hundredths
titleMarginFrac == 7
titleHeightFrac == 20
cardOuterMarginFrac == 2
verticalCardsDesktop == 130
verticalCardsMobile == 110

\* static titleHorizontalMargin, in pixels
titleHorizontalMargin == 50

\* static durations, in ms
initialGridFormationDuration == 500
gridReshuffleDuration == 400
hideShowCardDuration == 250
mobileSmoothingDuration == 400

\* static verticalCards
verticalCards(cfg) == IF cfg.mobile THEN verticalCardsMobile ELSE verticalCardsDesktop

\* 1 - titleHeightFrac - 2 * cardOuterMarginFrac - 2 * titleMarginFrac
CardAreaFrac == 100 - titleHeightFrac - 2 * cardOuterMarginFrac - 2 * titleMarginFrac

Remove(s, i) == [k \in 1 .. Len(s) - 1 |-> IF k < i THEN s[k] ELSE s[k + 1]]

\* gridWidthOptions.slice ().sort ( ( l, r ) => r - l )
RECURSIVE SortDescending(_)
SortDescending(s) ==
    IF s = << >> THEN << >>
    ELSE LET m == CHOOSE i \in 1 .. Len(s) :
                      /\ \A j \in 1 .. Len(s) : s[j] <= s[i]
                      /\ \A j \in 1 .. i - 1 : s[j] < s[i]
         IN <<s[m]>> \o SortDescending(Remove(s, m))

\* size.x / size.y of one title is below that of another
RatioBelow(a, b) == a[1] * b[2] < b[1] * a[2]

\* titleSizes.map ( size => size.x / size.y ) and sort ( ( l, r ) => r - l )
RECURSIVE TitleRatios(_)
TitleRatios(titleSizes) ==
    IF titleSizes = << >> THEN << >>
    ELSE LET m == CHOOSE i \in 1 .. Len(titleSizes) :
                      /\ \A j \in 1 .. Len(titleSizes) : ~RatioBelow(titleSizes[i], titleSizes[j])
                      /\ \A j \in 1 .. i - 1 : RatioBelow(titleSizes[j], titleSizes[i])
         IN <<titleSizes[m]>> \o TitleRatios(Remove(titleSizes, m))

\* _calculateGrid: widthOption <= hCards, where hCards is cardAreaRatio *
\* verticalCards / _cardRatioWithMargin, compared exactly. A screen of height
\* 0 makes hCards Infinity, or NaN when its width is 0 as well.
FitsAcross(cfg, screenSize, widthOption) ==
    IF screenSize[2] = 0 THEN screenSize[1] > 0
    ELSE widthOption * CardAreaFrac * screenSize[2] * (cfg.cardSize[1] + cfg.cardMargin[1])
            <= screenSize[1] * verticalCards(cfg) * (cfg.cardSize[2] + cfg.cardMargin[2])

\* _calculateGrid: "Find the best option", else the minimum allowed grid width
RECURSIVE BestOption(_, _, _, _)
BestOption(cfg, options, screenSize, k) ==
    IF k > Len(options) THEN options[Len(options)]
    ELSE IF FitsAcross(cfg, screenSize, options[k]) THEN options[k]
         ELSE BestOption(cfg, options, screenSize, k + 1)

\* a grid whose height is rounded down
GridOfFloor(widthOption, size) == <<widthOption, size \div widthOption>>

\* new Vec ( widthOption, Math.ceil ( this._cards.size () / widthOption ) )
GridOf(widthOption, size) == <<widthOption, Ceil(size, widthOption)>>

\* _calculateGrid ( screenSize )
CalculateGrid(cfg, screenSize) ==
    GridOf(BestOption(cfg, SortDescending(cfg.gridWidthOptions), screenSize, 1), cfg.cards)

\* _calculateLayout: this._titleRatios [ i ] < titleAreaRatio, compared exactly
TitleFits(ratio, screenSize) ==
    IF screenSize[2] = 0 THEN screenSize[1] > 2 * titleHorizontalMargin
    ELSE ratio[1] * screenSize[2] * titleHeightFrac
            < (screenSize[1] - 2 * titleHorizontalMargin) * 100 * ratio[2]

\* _calculateLayout: "Choose the best title to fit the space", a 0-based index
RECURSIVE TitleChoice(_, _, _)
TitleChoice(titleRatios, screenSize, i) ==
    IF TitleFits(titleRatios[i + 1], screenSize) \/ i = Len(titleRatios) - 1 THEN i
    ELSE TitleChoice(titleRatios, screenSize, i + 1)

\* _calculateLayout: the place of the card of cell (x, y) in the grid, in half
\* cells from cornerOffset; the bottom row is centred by bottomRowOffset. Every
\* place has the size layout.cardSize.
GridPlace(grid, size, x, y) ==
    LET cardsOnBottomRow == size - grid[1] * (grid[2] - 1)
    IN [position |-> <<2 * x + (IF y = grid[2] - 1 THEN grid[1] - cardsOnBottomRow ELSE 0), 2 * y>>,
        rotation |-> 0]

\* _calculateLayout: "Calculate the card positions", the loops over y and x
RECURSIVE CardPositions(_, _, _, _, _)
CardPositions(grid, size, y, x, cardPositions) ==
    IF y >= grid[2] THEN cardPositions
    ELSE IF x < grid[1] /\ y * grid[1] + x < size
         THEN CardPositions(grid, size, y, x + 1, Append(cardPositions, GridPlace(grid, size, x, y)))
         ELSE CardPositions(grid, size, y + 1, 0, cardPositions)

\* _calculateLayout: the hidden place of the card of cell (x, y): the edge it
\* hides on and how far along that edge, before the random jitter
HiddenPlace(grid, x, y) ==
    LET gridIsHorizontal == grid[1] > grid[2]
        sign(k) == IF k % 2 = 0 THEN 1 ELSE -1
    IN [horizontal |-> gridIsHorizontal,
        positiveEdge |-> IF gridIsHorizontal
                         THEN 10 * y > 5 * grid[2] - 5 + sign(x)
                         ELSE 10 * x > 5 * grid[1] - 5 + sign(y),
        along |-> IF gridIsHorizontal THEN <<x, grid[1] - 1>> ELSE <<y, grid[2] - 1>>]

\* _calculateLayout: "Calculate hidden card positions", hiddenCardPositions [ i ] = ...
RECURSIVE HiddenCardPositions(_, _, _, _, _)
HiddenCardPositions(grid, size, y, x, hiddenCardPositions) ==
    IF y >= grid[2] THEN hiddenCardPositions
    ELSE IF x < grid[1] /\ y * grid[1] + x < size
         THEN HiddenCardPositions(grid, size, y, x + 1,
                  ArraySet(hiddenCardPositions, y * grid[1] + x, HiddenPlace(grid, x, y)))
         ELSE HiddenCardPositions(grid, size, y + 1, 0, hiddenCardPositions)

\* the layout found for one grid
LayoutOf(cfg, screenSize, grid) ==
    [grid |-> grid,
     cardPositions |-> CardPositions(grid, cfg.cards, 0, 0, << >>),
     hiddenCardPositions |-> HiddenCardPositions(grid, cfg.cards, 0, 0, << >>),
     titleChoice |-> TitleChoice(TitleRatios(cfg.titleSizes), screenSize, 0)]

\* _calculateLayout ( screenSize )
CalculateLayout(cfg, screenSize) ==
    CHOOSE layout \in {LayoutOf(cfg, screenSize, grid) : grid \in {CalculateGrid(cfg, screenSize)}} : TRUE

----------------------------------------------------------------------------
(* GridManager: the state machine. The animations it starts run on CardAnim
   nodes, whose completion is a timer; an animation in flight is kept until its
   timer fires and its callback, if it carries one, has run. The styles written
   on the canvas and on the titles are not part of the state. *)

MaxRequests == 2
MaxResizes == 2

\* a duration base / 2 ^ halvings, so that prevAnimationDuration / 2 is exact
Halved(duration) == IF duration[1] = 0 THEN <<0, 0>> ELSE <<duration[1], duration[2] + 1>>

\* updatePositions: "Calculate the animation position, duration, and ease"
AnimationDuration(mobile, currentState, nextState, gridChange, prevAnimationDuration) ==
    IF nextState = HIDDEN THEN <<hideShowCardDuration, 0>>
    ELSE IF currentState = HIDDEN THEN <<hideShowCardDuration, 0>>
    ELSE IF currentState = "null" THEN <<initialGridFormationDuration, 0>>
    ELSE IF gridChange THEN <<gridReshuffleDuration, 0>>
    ELSE IF mobile THEN <<mobileSmoothingDuration, 0>>
    ELSE Halved(prevAnimationDuration)

AnimationEase(currentState, nextState) ==
    IF nextState = HIDDEN THEN "ease-in"
    ELSE IF currentState = HIDDEN THEN "ease-out"
    ELSE "ease-in-out"

AnimationPosition(nextState, layout) ==
    IF nextState = HIDDEN THEN layout.hiddenCardPositions ELSE layout.cardPositions

\* a check that does not look at the busy flag
NoNeed(animationBusy, nextState, currentState, newScreenSize, currentScreenSize) ==
    nextState = currentState /\ newScreenSize = currentScreenSize

\* updatePositions: "Don't do anything if a reshuffle is in progress, or if
\* there is no need"
NothingToDo(animationBusy, nextState, currentState, newScreenSize, currentScreenSize) ==
    IF animationBusy THEN TRUE
    ELSE nextState = currentState /\ newScreenSize = currentScreenSize

\* the card animation with the completion callback, and what its closure holds
CardMove(gm, layout, gridChange, prevAnimationDuration) ==
    [kind |-> "move", callback |-> TRUE,
     params |-> AnimationPosition(gm.nextState, layout),
     ease |-> AnimationEase(gm.currentState, gm.nextState),
     duration |-> AnimationDuration(gm.cfg.mobile, gm.currentState, gm.nextState,
                                    gridChange, prevAnimationDuration),
     gridChange |-> gridChange, grid |-> layout.grid]

\* new CardAnim ( this._cards, layout.hiddenCardPositions, null, "ease-in-out", 0 )
CardJump(layout) ==
    [kind |-> "jump", callback |-> FALSE, params |-> layout.hiddenCardPositions,
     ease |-> "ease-in-out", duration |-> <<0, 0>>, gridChange |-> FALSE, grid |-> layout.grid]

\* the deal: this._dealer.createAnimation ( ... ).addCallback ( ... ).animate ()
DealAnimation ==
    [kind |-> "deal", callback |-> TRUE, params |-> << >>, ease |-> "ease-in-out",
     duration |-> <<0, 0>>, gridChange |-> FALSE, grid |-> <<0, 0>>]

\* updatePositions ( prevAnimationDuration ). A CardAnim constructor that
\* throws ends the handler where it stands.
UpdatePositions(gm, prevAnimationDuration) ==
    LET newScreenSize == gm.window IN
    IF NothingToDo(gm.animationBusy, gm.nextState, gm.currentState, newScreenSize, gm.currentScreenSize)
    THEN gm
    ELSE LET layout == CalculateLayout(gm.cfg, newScreenSize)
             gridChange == gm.currentGrid # layout.grid
             cards == Selection("cards", gm.cfg.cards)
             jumps == gm.currentState = HIDDEN
             animates == ~(gm.currentState = HIDDEN /\ gm.nextState = HIDDEN)
             sized == [gm EXCEPT !.currentScreenSize = newScreenSize]
             jumped == IF jumps THEN [sized EXCEPT !.inflight = Append(@, CardJump(layout))]
                       ELSE sized
             busy == [jumped EXCEPT !.animationBusy = TRUE]
             moved == IF animates
                      THEN [busy EXCEPT !.inflight = Append(@, CardMove(gm, layout, gridChange,
                                                                         prevAnimationDuration)),
                                        !.started = @ + 1]
                      ELSE jumped
         IN IF jumps /\ CtorThrows(cards, Arr(layout.hiddenCardPositions), Null)
            THEN [sized EXCEPT !.threw = TRUE]
            ELSE IF animates /\ CtorThrows(cards, Null, Arr(AnimationPosition(gm.nextState, layout)))
            THEN [busy EXCEPT !.threw = TRUE]
            ELSE [moved EXCEPT !.currentState = gm.nextState,
                               !.currentGrid = layout.grid,
                               !.currentTitle = layout.titleChoice,
                               !.first = IF @ = "null" THEN gm.nextState ELSE @]

\* a callback that keeps the setup callback
SetupCallbackKept(setupCallback) == setupCallback

\* this._setupCallback = null
SetupCallbackCleared(setupCallback) == FALSE

\* document.scrollingElement.overflowY = ( grid.y <= verticalCards ? "hidden" : "" )
OverflowY(cfg, grid) == IF 100 * grid[2] <= verticalCards(cfg) THEN "hidden" ELSE ""

\* a completion callback that does not look at the positions again
CompletedOnly(gm, anim) ==
    [gm EXCEPT !.setupCalls = IF gm.setupCallback THEN @ + 1 ELSE @,
               !.setupCallback = SetupCallbackCleared(@),
               !.overflowY = OverflowY(gm.cfg, anim.grid),
               !.completed = @ + 1,
               !.animationBusy = FALSE]

\* the completion callback of the card animation of updatePositions
Completed(gm, anim) ==
    UpdatePositions([gm EXCEPT !.setupCalls = IF gm.setupCallback THEN @ + 1 ELSE @,
                               !.setupCallback = SetupCallbackCleared(@),
                               !.overflowY = OverflowY(gm.cfg, anim.grid),
                               !.completed = @ + 1,
                               !.animationBusy = FALSE],
                    anim.duration)

\* new GridManager ( canvas, cards, titles, cardSize, cardMargin, titleSizes,
\* gridWidthOptions, setupCallback ), on a window of the given size. first,
\* requested, deferred, started, completed, setupCalls, requests and resizes
\* record what has happened; listening says that the resize listener and the
\* interval are installed, and events counts the resize events not yet handled.
NewGridManager(cfg, screenSize) ==
    [pc |-> "grid", cfg |-> cfg, window |-> screenSize,
     currentScreenSize |-> screenSize,
     currentGrid |-> CalculateLayout(cfg, screenSize).grid,
     currentTitle |-> CalculateLayout(cfg, screenSize).titleChoice,
     currentState |-> "null", nextState |-> GRID,
     animationBusy |-> TRUE, setupCallback |-> cfg.setupCallback,
     overflowY |-> OverflowY(cfg, CalculateLayout(cfg, screenSize).grid),
     inflight |-> <<DealAnimation>>, listening |-> FALSE, events |-> 0, threw |-> FALSE,
     first |-> "null", requested |-> GRID, deferred |-> 0,
     started |-> 0, completed |-> 0, setupCalls |-> 0, requests |-> 0, resizes |-> 0]

\* the callback of the deal animation
DealDone ==
    /\ gridManager.pc = "grid"
    /\ \E i \in 1 .. Len(gridManager.inflight) :
          /\ gridManager.inflight[i].kind = "deal"
          /\ gridManager' =
                [UpdatePositions([gridManager EXCEPT !.inflight = Remove(@, i),
                                                     !.animationBusy = FALSE], <<0, 0>>)
                    EXCEPT !.listening = TRUE]
    /\ UNCHANGED << nodes, promises, promiseObjs, animated, animateCount, fired, writes, now,
                    nops, last, attached, followed, dealer, popupManager, cardFaceManager, countdown >>

\* the timer of a card animation fires; its callback runs if it carries one
AnimationDone(i) ==
    /\ gridManager.pc = "grid"
    /\ i \in 1 .. Len(gridManager.inflight)
    /\ gridManager.inflight[i].kind # "deal"
    /\ gridManager' =
          IF gridManager.inflight[i].callback
          THEN Completed([gridManager EXCEPT !.inflight = Remove(@, i)], gridManager.inflight[i])
          ELSE [gridManager EXCEPT !.inflight = Remove(@, i)]
    /\ UNCHANGED << nodes, promises, promiseObjs, animated, animateCount, fired, writes, now,
                    nops, last, attached, followed, dealer, popupManager, cardFaceManager, countdown >>

\* this._nextState = state; this.updatePositions (), with the request recorded
Requested(gm, state) ==
    UpdatePositions([gm EXCEPT !.nextState = state,
                               !.requested = state,
                               !.requests = @ + 1,
                               !.deferred = IF gm.animationBusy THEN @ + 1 ELSE @], <<0, 0>>)

\* hideCards ()
hideCards ==
    /\ gridManager.pc = "grid"
    /\ gridManager.requests < MaxRequests
    /\ gridManager' = Requested(gridManager, HIDDEN)
    /\ UNCHANGED << nodes, promises, promiseObjs, animated, animateCount, fired, writes, now,
                    nops, last, attached, followed, dealer, popupManager, cardFaceManager, countdown >>

\* showCards ()
showCards ==
    /\ gridManager.pc = "grid"
    /\ gridManager.requests < MaxRequests
    /\ gridManager' = Requested(gridManager, GRID)
    /\ UNCHANGED << nodes, promises, promiseObjs, animated, animateCount, fired, writes, now,
                    nops, last, attached, followed, dealer, popupManager, cardFaceManager, countdown >>

\* the window is resized: a resize event is queued for the listener, if any
WindowResized(screenSize) ==
    /\ gridManager.pc = "grid"
    /\ gridManager.resizes < MaxResizes
    /\ screenSize # gridManager.window
    /\ gridManager' = [gridManager EXCEPT !.window = screenSize,
                                          !.resizes = @ + 1,
                                          !.events = IF gridManager.listening THEN @ + 1 ELSE @]
    /\ UNCHANGED << nodes, promises, promiseObjs, animated, animateCount, fired, writes, now,
                    nops, last, attached, followed, dealer, popupManager, cardFaceManager, countdown >>

\* window.addEventListener ( "resize", () => this.updatePositions () )
OnResize ==
    /\ gridManager.pc = "grid"
    /\ gridManager.events > 0
    /\ gridManager' = UpdatePositions([gridManager EXCEPT !.events = @ - 1], <<0, 0>>)
    /\ UNCHANGED << nodes, promises, promiseObjs, animated, animateCount, fired, writes, now,
                    nops, last, attached, followed, dealer, popupManager, cardFaceManager, countdown >>

\* setInterval ( () => this.updatePositions (), GridManager.positionUpdateInterval )
Refresh ==
    /\ gridManager.pc = "grid"
    /\ gridManager.listening
    /\ gridManager' = UpdatePositions(gridManager, <<0, 0>>)
    /\ UNCHANGED << nodes, promises, promiseObjs, animated, animateCount, fired, writes, now,
                    nops, last, attached, followed, dealer, popupManager, cardFaceManager, countdown >>

GridScreens == {<<1000, 800>>, <<1040, 800>>, <<400, 800>>}

GridConfigs ==
    {[cards |-> 3, cardSize |-> <<100, 140>>, cardMargin |-> <<20, 20>>,
      titleSizes |-> <<<<3, 1>>, <<6, 1>>>>, gridWidthOptions |-> <<2, 4, 1, 3>>,
      mobile |-> mobile, setupCallback |-> setupCallback] :
        mobile \in BOOLEAN, setupCallback \in BOOLEAN}

InitGrid ==
    /\ nodes = << >>
    /\ promises = << >>
    /\ promiseObjs = << >>
    /\ animated = 0
    /\ animateCount = << >>
    /\ fired = << >>
    /\ writes = {}
    /\ now = 0
    /\ nops = 0
    /\ last = NoCall
    /\ attached = << >>
    /\ followed = {}
    /\ popupManager = NoPopupManager
    /\ cardFaceManager = NoCardFaceManager
    /\ countdown = NoCountdown
    /\ dealer = NoDealer
    /\ \E cfg \in GridConfigs, screenSize \in GridScreens :
          gridManager = NewGridManager(cfg, screenSize)

NextGrid ==
    \/ DealDone
    \/ \E i \in 1 .. Len(gridManager.inflight) : AnimationDone(i)
    \/ hideCards
    \/ showCards
    \/ \E screenSize \in GridScreens : WindowResized(screenSize)
    \/ OnResize
    \/ Refresh

SpecGrid == InitGrid /\ [][NextGrid]_vars

\* the animations in flight that carry a completion callback
Bearing == {i \in 1 .. Len(gridManager.inflight) : gridManager.inflight[i].callback}

\* C25: at most one card animation with a completion callback is in flight,
\* and the busy flag is set exactly while one is, the deal included:
\* updatePositions starts one only when the flag is down (or has just been
\* lowered by the completion callback that calls it) and raises the flag, and
\* the flag is lowered only by the completion callback of that animation.
C25_OneAnimationInFlight ==
    /\ [](gridManager.pc = "grid" =>
            /\ Cardinality(Bearing) <= 1
            /\ gridManager.animationBusy <=> Cardinality(Bearing) = 1
            /\ ~gridManager.threw)
    /\ [][gridManager.pc = "grid" =>
            /\ gridManager'.started > gridManager.started =>
                  /\ gridManager'.started = gridManager.started + 1
                  /\ gridManager'.animationBusy
                  /\ \/ ~gridManager.animationBusy
                     \/ gridManager'.completed = gridManager.completed + 1
                     \/ /\ \E i \in 1 .. Len(gridManager.inflight) : gridManager.inflight[i].kind = "deal"
                        /\ \A i \in 1 .. Len(gridManager'.inflight) : gridManager'.inflight[i].kind # "deal"
            /\ (gridManager.animationBusy /\ ~gridManager'.animationBusy) =>
                  \/ gridManager'.completed = gridManager.completed + 1
                  \/ /\ \E i \in 1 .. Len(gridManager.inflight) : gridManager.inflight[i].kind = "deal"
                     /\ \A i \in 1 .. Len(gridManager'.inflight) : gridManager'.inflight[i].kind # "deal"]_vars

\* requests and resize events arrived while an animation was in flight, and
\* the next animation started only from its completion callback
C25_Witness ==
    /\ gridManager.pc = "grid"
    /\ gridManager.deferred > 0
    /\ gridManager.resizes > 0
    /\ gridManager.started > 1
    /\ gridManager.completed > 0
    /\ gridManager.animationBusy

\* the cache the validity check of a trial step reads: the entries on the
\* victim's list recomputed on the layout tried, the others as they were
CheckedCache ==
    UpdateEntries(dealer.cfg, Tried, dealer.intercepts, dealer.byCard[dealer.victim], 1)

\* C26: at every validity check each entry of the incrementally maintained
\* cache, also of a pair that does not involve the victim, holds the points a
\* full recomputation on the layout under check gives for its pair.
C26_CacheEqualsRecomputation ==
    [][TrialStep =>
          \A e \in 1 .. Len(dealer.intercepts) :
              PointSet(CheckedCache[e]) = SamplePoints(Tried, dealer.intercepts[e])]_vars

\* C27: the first state the GridManager enters after construction is GRID:
\* whatever hideCards, showCards and resize events arrive, also during the
\* deal, _currentState goes from null to GRID before it ever is HIDDEN.
C27_FirstStateIsGrid ==
    gridManager.pc = "grid" =>
        /\ gridManager.first \in {"null", GRID}
        /\ gridManager.currentState = HIDDEN => gridManager.first = GRID

\* something is left for updatePositions to do
Need(gm) == gm.nextState # gm.currentState \/ gm.window # gm.currentScreenSize

\* a bound on the timer and event steps left when no request or resize arrives
GridStepsLeft(gm) == Len(gm.inflight) + gm.events + (IF Need(gm) THEN 3 ELSE 0)

\* C28: a hide or show request is never lost: whenever no animation is busy
\* _currentState is the state requested last; and once requests and resizes
\* have stopped, every timer or event that fires brings the end nearer (so the
\* pending ones run out), after which no animation is in flight,
\* _animationBusy is false and _currentState is the state requested last.
C28_RequestServed ==
    /\ [](gridManager.pc = "grid" =>
            /\ ~gridManager.animationBusy => gridManager.currentState = gridManager.requested
            /\ gridManager.inflight = << >> =>
                  /\ ~gridManager.animationBusy
                  /\ gridManager.currentState = gridManager.requested
            /\ GridStepsLeft(gridManager) >= 0)
    /\ [][(/\ gridManager.pc = "grid"
           /\ gridManager'.requests = gridManager.requests
           /\ gridManager'.resizes = gridManager.resizes)
            => GridStepsLeft(gridManager') < GridStepsLeft(gridManager)]_vars

\* requests made while an animation was busy have been served
C28_Witness ==
    /\ gridManager.pc = "grid"
    /\ gridManager.requests > 1
    /\ gridManager.deferred > 1
    /\ gridManager.requested = HIDDEN
    /\ gridManager.currentState = HIDDEN
    /\ gridManager.completed > 1
    /\ ~gridManager.animationBusy
    /\ gridManager.inflight = << >>

----------------------------------------------------------------------------
(* GridManager, the variant that draws on an SVG (updateSVGPositions): its
   constructor starts the deal without raising _animationBusy, and a flag
   _cardsRequireRefresh says that there is something to do. The layout is
   computed on the same grid. *)

\* updateSVGPositions: "Calculate the animation duration"
AnimationDurationSVG(mobile, state, nextState, gridChange, forceFullAnimation, prevAnimationDuration) ==
    IF mobile \/ gridChange \/ nextState # state \/ forceFullAnimation
    THEN <<gridReshuffleDuration, 0>>
    ELSE Halved(prevAnimationDuration)

\* updateSVGPositions: the card animation with the completion callback
CardMoveSVG(gm, layout, gridChange, forceFullAnimation, prevAnimationDuration) ==
    [kind |-> "move", callback |-> TRUE,
     params |-> IF gm.nextState = GRID THEN layout.cardPositions ELSE layout.hiddenCardPositions,
     ease |-> IF gm.nextState = GRID
              THEN (IF gm.currentState = GRID THEN "easeSinInOut" ELSE "easeSinOut")
              ELSE "easeSin",
     duration |-> AnimationDurationSVG(gm.cfg.mobile, gm.currentState, gm.nextState, gridChange,
                                       forceFullAnimation, prevAnimationDuration),
     gridChange |-> gridChange, grid |-> layout.grid]

\* updateSVGPositions ( prevAnimationDuration, forceFullAnimation ); _state is
\* the field currentState
UpdateSVGPositions(gm, prevAnimationDuration, forceFullAnimation) ==
    IF gm.animationBusy \/ ~gm.cardsRequireRefresh
    THEN gm
    ELSE LET layout == CalculateLayout(gm.cfg, gm.window)
             gridChange == gm.currentGrid # layout.grid
             gathered == [gm EXCEPT !.currentScreenSize = gm.window,
                                    !.cardsRequireRefresh = FALSE,
                                    !.currentGrid = layout.grid,
                                    !.currentTitle = layout.titleChoice]
             jumped == IF gm.currentState = HIDDEN
                       THEN [gathered EXCEPT !.inflight = Append(@, CardJump(layout))]
                       ELSE gathered
         IN IF gm.currentState = HIDDEN /\ gm.nextState = HIDDEN
            THEN jumped
            ELSE [jumped EXCEPT
                    !.inflight = Append(@, CardMoveSVG(gm, layout, gridChange, forceFullAnimation,
                                                       prevAnimationDuration)),
                    !.started = @ + 1,
                    !.currentState = gm.nextState,
                    !.first = IF @ = "null" THEN gm.nextState ELSE @,
                    !.animationBusy = TRUE]

\* the completion callback of the card animation of updateSVGPositions
CompletedSVG(gm, anim) ==
    UpdateSVGPositions([gm EXCEPT !.setupCalls = IF gm.setupCallback THEN @ + 1 ELSE @,
                                  !.setupCallback = SetupCallbackCleared(@),
                                  !.overflowY = OverflowY(gm.cfg, gm.currentGrid),
                                  !.completed = @ + 1,
                                  !.animationBusy = FALSE],
                       anim.duration, FALSE)

\* new GridManager ( svg, cards, titles, ... ): _state and _nextState are left
\* undefined and _animationBusy keeps its initial value false
NewGridManagerSVG(cfg, screenSize) ==
    [pc |-> "svg", cfg |-> cfg, window |-> screenSize,
     currentScreenSize |-> screenSize,
     currentGrid |-> CalculateLayout(cfg, screenSize).grid,
     currentTitle |-> CalculateLayout(cfg, screenSize).titleChoice,
     currentState |-> "null", nextState |-> "null",
     animationBusy |-> FALSE, cardsRequireRefresh |-> FALSE, setupCallback |-> cfg.setupCallback,
     overflowY |-> OverflowY(cfg, CalculateLayout(cfg, screenSize).grid),
     inflight |-> <<DealAnimation>>, listening |-> FALSE, events |-> 0, threw |-> FALSE,
     first |-> "null", requested |-> GRID, deferred |-> 0,
     started |-> 0, completed |-> 0, setupCalls |-> 0, requests |-> 0, resizes |-> 0]

\* the callback of the deal animation
DealDoneSVG ==
    /\ gridManager.pc = "svg"
    /\ \E i \in 1 .. Len(gridManager.inflight) :
          /\ gridManager.inflight[i].kind = "deal"
          /\ gridManager' =
                [UpdateSVGPositions([gridManager EXCEPT !.inflight = Remove(@, i),
                                                        !.nextState = GRID,
                                                        !.currentState = GRID,
                                                        !.first = IF @ = "null" THEN GRID ELSE @,
                                                        !.cardsRequireRefresh = TRUE],
                                    <<0, 0>>, TRUE)
                    EXCEPT !.listening = TRUE]
    /\ UNCHANGED << nodes, promises, promiseObjs, animated, animateCount, fired, writes, now,
                    nops, last, attached, followed, dealer, popupManager, cardFaceManager, countdown >>

\* the timer of a card animation fires; its callback runs if it carries one
AnimationDoneSVG(i) ==
    /\ gridManager.pc = "svg"
    /\ i \in 1 .. Len(gridManager.inflight)
    /\ gridManager.inflight[i].kind # "deal"
    /\ gridManager' =
          IF gridManager.inflight[i].callback
          THEN CompletedSVG([gridManager EXCEPT !.inflight = Remove(@, i)], gridManager.inflight[i])
          ELSE [gridManager EXCEPT !.inflight = Remove(@, i)]
    /\ UNCHANGED << nodes, promises, promiseObjs, animated, animateCount, fired, writes, now,
                    nops, last, attached, followed, dealer, popupManager, cardFaceManager, countdown >>

\* this._nextState = state; this._cardsRequireRefresh = true;
\* this.updateSVGPositions (), with the request recorded
RequestedSVG(gm, state) ==
    UpdateSVGPositions([gm EXCEPT !.nextState = state,
                                  !.cardsRequireRefresh = TRUE,
                                  !.requested = state,
                                  !.requests = @ + 1,
                                  !.deferred = IF gm.animationBusy THEN @ + 1 ELSE @],
                       <<0, 0>>, FALSE)

\* hideCards ()
hideCardsSVG ==
    /\ gridManager.pc = "svg"
    /\ gridManager.requests < MaxRequests
    /\ gridManager' = RequestedSVG(gridManager, HIDDEN)
    /\ UNCHANGED << nodes, promises, promiseObjs, animated, animateCount, fired, writes, now,
                    nops, last, attached, followed, dealer, popupManager, cardFaceManager, countdown >>

\* showCards ()
showCardsSVG ==
    /\ gridManager.pc = "svg"
    /\ gridManager.requests < MaxRequests
    /\ gridManager' = RequestedSVG(gridManager, GRID)
    /\ UNCHANGED << nodes, promises, promiseObjs, animated, animateCount, fired, writes, now,
                    nops, last, attached, followed, dealer, popupManager, cardFaceManager, countdown >>

\* the window is resized: a resize event is queued for the listener, if any
WindowResizedSVG(screenSize) ==
    /\ gridManager.pc = "svg"
    /\ gridManager.resizes < MaxResizes
    /\ screenSize # gridManager.window
    /\ gridManager' = [gridManager EXCEPT !.window = screenSize,
                                          !.resizes = @ + 1,
                                          !.events = IF gridManager.listening THEN @ + 1 ELSE @]
    /\ UNCHANGED << nodes, promises, promiseObjs, animated, animateCount, fired, writes, now,
                    nops, last, attached, followed, dealer, popupManager, cardFaceManager, countdown >>

\* the resize listener: this._cardsRequireRefresh = true; this.updateSVGPositions ( 0 )
OnResizeSVG ==
    /\ gridManager.pc = "svg"
    /\ gridManager.events > 0
    /\ gridManager' = UpdateSVGPositions([gridManager EXCEPT !.events = @ - 1,
                                                             !.cardsRequireRefresh = TRUE],
                                         <<0, 0>>, FALSE)
    /\ UNCHANGED << nodes, promises, promiseObjs, animated, animateCount, fired, writes, now,
                    nops, last, attached, followed, dealer, popupManager, cardFaceManager, countdown >>

InitGridSVG ==
    /\ nodes = << >>
    /\ promises = << >>
    /\ promiseObjs = << >>
    /\ animated = 0
    /\ animateCount = << >>
    /\ fired = << >>
    /\ writes = {}
    /\ now = 0
    /\ nops = 0
    /\ last = NoCall
    /\ attached = << >>
    /\ followed = {}
    /\ popupManager = NoPopupManager
    /\ cardFaceManager = NoCardFaceManager
    /\ countdown = NoCountdown
    /\ dealer = NoDealer
    /\ \E cfg \in GridConfigs, screenSize \in GridScreens :
          gridManager = NewGridManagerSVG(cfg, screenSize)

NextGridSVG ==
    \/ DealDoneSVG
    \/ \E i \in 1 .. Len(gridManager.inflight) : AnimationDoneSVG(i)
    \/ hideCardsSVG
    \/ showCardsSVG
    \/ \E screenSize \in GridScreens : WindowResizedSVG(screenSize)
    \/ OnResizeSVG

SpecGridSVG == InitGridSVG /\ [][NextGridSVG]_vars

\* the deal animation is still in flight
Dealing == \E i \in 1 .. Len(gridManager.inflight) : gridManager.inflight[i].kind = "deal"

\* C29: the setup callback given to the GridManager is invoked exactly once:
\* when the first card animation that updatePositions starts after the deal
\* completes, and never again on a later reshuffle, hide or show.
C29_SetupCallbackOnce ==
    /\ [](gridManager.pc \in {"grid", "svg"} =>
            /\ gridManager.setupCalls
                 = (IF gridManager.cfg.setupCallback /\ gridManager.completed > 0 THEN 1 ELSE 0)
            /\ Dealing => gridManager.setupCalls = 0)
    /\ [][(gridManager.pc \in {"grid", "svg"} /\ gridManager'.setupCalls # gridManager.setupCalls)
            => /\ gridManager.completed = 0
               /\ gridManager'.completed = 1
               /\ ~Dealing]_vars

----------------------------------------------------------------------------
(* Specification of the layout: _calculateLayout on a screen size, a list of
   grid width options and a number of cards, then the per-card animation nodes
   updatePositions builds from the positions it returns *)

MaxCards == 5
MaxWidth == 3

\* window sizes, also ones with no width or no height
LayoutScreens == {<<0, 0>>, <<0, 800>>, <<1000, 0>>, <<400, 800>>, <<1000, 800>>, <<3000, 800>>}

\* the non-empty lists of one or two grid width options, in any order
WidthOptions ==
    {<<a>> : a \in 1 .. MaxWidth} \cup {<<a, b>> : a \in 1 .. MaxWidth, b \in 1 .. MaxWidth}

LayoutConfigs ==
    {[cards |-> cards, cardSize |-> <<100, 140>>, cardMargin |-> <<20, 20>>,
      titleSizes |-> <<<<3, 1>>, <<6, 1>>>>, gridWidthOptions |-> options,
      mobile |-> mobile, setupCallback |-> FALSE] :
        cards \in 1 .. MaxCards, options \in WidthOptions, mobile \in BOOLEAN}

NoLayout == [grid |-> <<0, 0>>, cardPositions |-> << >>, hiddenCardPositions |-> << >>,
             titleChoice |-> 0]

\* const layout = this._calculateLayout ( this._currentScreenSize )
Layout ==
    /\ gridManager.pc = "layout"
    /\ gridManager' = [gridManager EXCEPT !.pc = "laid",
                                          !.layout = CalculateLayout(gridManager.cfg, gridManager.window)]
    /\ UNCHANGED << nodes, promises, promiseObjs, animated, animateCount, fired, writes, now,
                    nops, last, attached, followed, dealer, popupManager, cardFaceManager, countdown >>

\* new CardAnim ( this._cards, null, animationPosition, animationEase,
\* animationDuration ): the node is built unless the constructor throws
MoveCards(positions) ==
    /\ gridManager.pc = "laid"
    /\ positions \notin gridManager.built
    /\ gridManager' =
          [gridManager EXCEPT
              !.built = @ \cup {positions},
              !.threw = @ \/ CtorThrows(Selection("cards", gridManager.cfg.cards), Null,
                                        Arr(gridManager.layout[positions]))]
    /\ UNCHANGED << nodes, promises, promiseObjs, animated, animateCount, fired, writes, now,
                    nops, last, attached, followed, dealer, popupManager, cardFaceManager, countdown >>

\* new CardAnim ( this._cards, layout.hiddenCardPositions, null, "ease-in-out", 0 )
JumpCards ==
    /\ gridManager.pc = "laid"
    /\ "jump" \notin gridManager.built
    /\ gridManager' =
          [gridManager EXCEPT
              !.built = @ \cup {"jump"},
              !.threw = @ \/ CtorThrows(Selection("cards", gridManager.cfg.cards),
                                        Arr(gridManager.layout.hiddenCardPositions), Null)]
    /\ UNCHANGED << nodes, promises, promiseObjs, animated, animateCount, fired, writes, now,
                    nops, last, attached, followed, dealer, popupManager, cardFaceManager, countdown >>

InitLayout ==
    /\ nodes = << >>
    /\ promises = << >>
    /\ promiseObjs = << >>
    /\ animated = 0
    /\ animateCount = << >>
    /\ fired = << >>
    /\ writes = {}
    /\ now = 0
    /\ nops = 0
    /\ last = NoCall
    /\ attached = << >>
    /\ followed = {}
    /\ popupManager = NoPopupManager
    /\ cardFaceManager = NoCardFaceManager
    /\ countdown = NoCountdown
    /\ dealer = NoDealer
    /\ \E cfg \in LayoutConfigs, screenSize \in LayoutScreens :
          gridManager = [pc |-> "layout", cfg |-> cfg, window |-> screenSize,
                         layout |-> NoLayout, built |-> {}, threw |-> FALSE]

NextLayout ==
    \/ Layout
    \/ \E positions \in {"cardPositions", "hiddenCardPositions"} : MoveCards(positions)
    \/ JumpCards

SpecLayout == InitLayout /\ [][NextLayout]_vars

\* C30: for every screen size, non-empty list of grid width options and
\* number N >= 1 of cards, _calculateLayout returns cardPositions and
\* hiddenCardPositions of exactly N entries each, none of them skipped, on a
\* grid of at least N cells, and no animation node built from them fails the
\* cardinality check.
C30_LayoutHasOnePlacePerCard ==
    gridManager.pc = "laid" =>
        /\ gridManager.layout.grid[1] * gridManager.layout.grid[2] >= gridManager.cfg.cards
        /\ Len(gridManager.layout.cardPositions) = gridManager.cfg.cards
        /\ Len(gridManager.layout.hiddenCardPositions) = gridManager.cfg.cards
        /\ \A i \in 1 .. Len(gridManager.layout.hiddenCardPositions) :
              gridManager.layout.hiddenCardPositions[i] # Empty
        /\ ~gridManager.threw

\* a grid of several rows whose bottom row is not full, on a screen too narrow
\* for the widest option, with the three kinds of node built
C30_Witness ==
    /\ gridManager.pc = "laid"
    /\ gridManager.layout.grid[2] > 1
    /\ gridManager.layout.grid[1] * gridManager.layout.grid[2] > gridManager.cfg.cards
    /\ gridManager.layout.grid[1] < gridManager.cfg.gridWidthOptions[1]
    /\ gridManager.built = {"cardPositions", "hiddenCardPositions", "jump"}
    /\ ~gridManager.threw

----------------------------------------------------------------------------
(* PopupManager: the popup's open/closed state machine. openPopup and
   closePopup record the request and call _transitionPopup; the end of a
   transition is a timer of animationDuration. The styles written on the
   canvases and the focus are not part of the state. The GridManager it
   drives is the one of the grid specification, on a window that keeps its
   size. *)

CLOSED == "CLOSED"
OPEN == "OPEN"

MaxPopupCalls == 3

\* the elements handed to openPopup
PopupContents == {"face1", "face2"}

\* a check that never finds the popup busy
PopupNeverBusy(pm) == FALSE

\* _transitionPopup: "Don't transition of we are busy animating"
PopupBusy(pm) == pm.animationBusy

\* _transitionPopup: "Set new contents"
SetContents(pm) ==
    IF pm.nextContents # "null"
    THEN [pm EXCEPT !.contents = pm.nextContents, !.nextContents = "null"]
    ELSE pm

\* a popup that shows the cards whatever it changes to
GridRequestShow(gm, nextState) == Requested(gm, GRID)

\* _transitionPopup: this._gridManager.showCards () when closing,
\* this._gridManager.hideCards () when opening
GridRequest(gm, nextState) ==
    IF nextState = CLOSED THEN Requested(gm, GRID) ELSE Requested(gm, HIDDEN)

\* _transitionPopup (): the popup and the GridManager after the call. A call
\* to the GridManager that throws ends the handler where it stands.
TransitionPopup(pm, gm) ==
    IF PopupBusy(pm)
    THEN [pm |-> pm, gm |-> gm]
    ELSE LET set == SetContents(pm)
             asked == GridRequest(gm, set.nextState)
         IN IF set.nextState # set.currentState
            THEN IF asked.threw /\ ~gm.threw
                 THEN [pm |-> set, gm |-> asked]
                 ELSE [pm |-> [set EXCEPT !.animationBusy = TRUE,
                                          !.currentState = set.nextState,
                                          !.timers = @ + 1,
                                          !.transitions = @ + 1],
                       gm |-> asked]
            ELSE [pm |-> set, gm |-> gm]

\* an end of animation that does not look at the request again
AnimationEndedOnly(pm, gm) ==
    [pm |-> [pm EXCEPT !.animationBusy = FALSE, !.timers = @ - 1], gm |-> gm]

\* the timeout for the end of the animation: this._animationBusy = false;
\* this._transitionPopup ()
AnimationEnded(pm, gm) ==
    TransitionPopup([pm EXCEPT !.animationBusy = FALSE, !.timers = @ - 1], gm)

\* new PopupManager ( canvas, popup, popupClose, gridManager ). timers counts
\* the pending end-of-animation timers; calls, transitions, lastState and
\* lastContents record what has happened.
NewPopupManager ==
    [pc |-> "popup", currentState |-> CLOSED, nextState |-> CLOSED,
     nextContents |-> "null", animationBusy |-> FALSE, contents |-> "none",
     timers |-> 0, calls |-> 0, transitions |-> 0,
     lastState |-> CLOSED, lastContents |-> "none"]

\* openPopup ( contents )
openPopup(contents) ==
    /\ popupManager.pc = "popup"
    /\ popupManager.calls < MaxPopupCalls
    /\ LET r == TransitionPopup([popupManager EXCEPT !.nextContents = contents,
                                                     !.nextState = OPEN,
                                                     !.calls = @ + 1,
                                                     !.lastState = OPEN,
                                                     !.lastContents = contents],
                                gridManager)
       IN /\ popupManager' = r.pm
          /\ gridManager' = r.gm
    /\ UNCHANGED << nodes, promises, promiseObjs, animated, animateCount, fired, writes, now,
                    nops, last, attached, followed, dealer, cardFaceManager, countdown >>

\* the request of closePopup, with the call recorded
CloseRequested(pm, gm) ==
    TransitionPopup([pm EXCEPT !.nextState = CLOSED,
                               !.calls = @ + 1,
                               !.lastState = CLOSED], gm)

\* closePopup (), from the close button or the Escape key
closePopup ==
    /\ popupManager.pc = "popup"
    /\ popupManager.calls < MaxPopupCalls
    /\ LET r == CloseRequested(popupManager, gridManager)
       IN /\ popupManager' = r.pm
          /\ gridManager' = r.gm
    /\ UNCHANGED << nodes, promises, promiseObjs, animated, animateCount, fired, writes, now,
                    nops, last, attached, followed, dealer, cardFaceManager, countdown >>

\* the overscroll detector, on mobile: if ( this._currentState === OPEN &&
\* overscroll.y < 0 ) this.closePopup ()
Overscroll(y) ==
    /\ popupManager.pc = "popup"
    /\ gridManager.cfg.mobile
    /\ popupManager.calls < MaxPopupCalls
    /\ popupManager.currentState = OPEN
    /\ y < 0
    /\ LET r == CloseRequested(popupManager, gridManager)
       IN /\ popupManager' = r.pm
          /\ gridManager' = r.gm
    /\ UNCHANGED << nodes, promises, promiseObjs, animated, animateCount, fired, writes, now,
                    nops, last, attached, followed, dealer, cardFaceManager, countdown >>

\* the timeout set for the end of the animation fires
PopupAnimationEnd ==
    /\ popupManager.pc = "popup"
    /\ popupManager.timers > 0
    /\ LET r == AnimationEnded(popupManager, gridManager)
       IN /\ popupManager' = r.pm
          /\ gridManager' = r.gm
    /\ UNCHANGED << nodes, promises, promiseObjs, animated, animateCount, fired, writes, now,
                    nops, last, attached, followed, dealer, cardFaceManager, countdown >>

InitPopup ==
    /\ nodes = << >>
    /\ promises = << >>
    /\ promiseObjs = << >>
    /\ animated = 0
    /\ animateCount = << >>
    /\ fired = << >>
    /\ writes = {}
    /\ now = 0
    /\ nops = 0
    /\ last = NoCall
    /\ attached = << >>
    /\ followed = {}
    /\ dealer = NoDealer
    /\ \E cfg \in GridConfigs, screenSize \in GridScreens :
          gridManager = NewGridManager(cfg, screenSize)
    /\ popupManager = NewPopupManager
    /\ cardFaceManager = NoCardFaceManager
    /\ countdown = NoCountdown

NextPopup ==
    \/ \E contents \in PopupContents : openPopup(contents)
    \/ closePopup
    \/ \E y \in {-1, 1} : Overscroll(y)
    \/ PopupAnimationEnd
    \/ DealDone
    \/ \E i \in 1 .. Len(gridManager.inflight) : AnimationDone(i)

SpecPopup == InitPopup /\ [][NextPopup]_vars

\* a step in which openPopup or closePopup was called
PopupCalled == popupManager'.calls > popupManager.calls

\* C31: PopupManager never runs two transitions at once: a call made while
\* _animationBusy is true only records _nextState and _nextContents, changing
\* neither _currentState nor the popup's contents nor the timers, and at most
\* one end-of-animation timer is pending at any time.
C31_OneTransitionAtATime ==
    /\ [](popupManager.pc = "popup" =>
            /\ popupManager.timers <= 1
            /\ popupManager.animationBusy <=> popupManager.timers = 1)
    /\ [][(popupManager.pc = "popup" /\ popupManager.animationBusy /\ PopupCalled) =>
            /\ popupManager'.currentState = popupManager.currentState
            /\ popupManager'.contents = popupManager.contents
            /\ popupManager'.timers = popupManager.timers
            /\ popupManager'.transitions = popupManager.transitions
            /\ popupManager'.animationBusy
            /\ popupManager'.nextState = popupManager'.lastState
            /\ gridManager' = gridManager]_vars

\* calls of both kinds have arrived during one transition and were recorded
C31_Witness ==
    /\ popupManager.pc = "popup"
    /\ popupManager.animationBusy
    /\ popupManager.transitions = 1
    /\ popupManager.calls = MaxPopupCalls
    /\ popupManager.currentState = OPEN
    /\ popupManager.nextState = CLOSED
    /\ popupManager.nextContents # "null"
    /\ popupManager.nextContents # popupManager.contents

\* what is left to do once calls have stopped
PopupStepsLeft(pm) ==
    pm.timers + (IF pm.nextState # pm.currentState THEN 2 ELSE 0)

\* C32: once calls stop and the animation timers have fired, _currentState is
\* the state the last call requested, _animationBusy is false and the contents
\* of the last openPopup are installed; and the timers do run out, each firing
\* leaving strictly less to do.
C32_LastRequestServed ==
    /\ [](popupManager.pc = "popup" =>
            /\ popupManager.nextState = popupManager.lastState
            /\ popupManager.timers = 0 =>
                  /\ popupManager.currentState = popupManager.lastState
                  /\ ~popupManager.animationBusy
                  /\ popupManager.lastContents # "none" =>
                        popupManager.contents = popupManager.lastContents
            /\ PopupStepsLeft(popupManager) >= 0)
    /\ [][(popupManager.pc = "popup" /\ popupManager.timers > 0 /\ ~PopupCalled
             /\ popupManager' # popupManager) =>
            PopupStepsLeft(popupManager') < PopupStepsLeft(popupManager)]_vars

\* the popup was opened, and during that transition closed and opened again
\* with other contents: it has ended open, showing the later contents
C32_Witness ==
    /\ popupManager.pc = "popup"
    /\ popupManager.timers = 0
    /\ popupManager.calls = MaxPopupCalls
    /\ popupManager.transitions = 1
    /\ popupManager.currentState = OPEN
    /\ popupManager.contents = "face2"

\* C33: the popup is OPEN exactly when the state last requested of the
\* GridManager is HIDDEN: hideCards is called on each change to OPEN, showCards
\* on each change to CLOSED, and neither when the popup state does not change.
C33_PopupAndGridCoupled ==
    /\ [](popupManager.pc = "popup" =>
            /\ popupManager.currentState = OPEN <=> gridManager.requested = HIDDEN
            /\ gridManager.requests = popupManager.transitions)
    /\ [][popupManager.pc = "popup" =>
            IF popupManager'.currentState # popupManager.currentState
            THEN /\ gridManager'.requests = gridManager.requests + 1
                 /\ gridManager'.nextState =
                       (IF popupManager'.currentState = OPEN THEN HIDDEN ELSE GRID)
            ELSE gridManager'.requests = gridManager.requests]_vars

\* the popup has opened and closed again, the cards were hidden and shown
C33_Witness ==
    /\ popupManager.pc = "popup"
    /\ popupManager.transitions = 2
    /\ popupManager.currentState = CLOSED
    /\ gridManager.requested = GRID
    /\ gridManager.currentState = GRID
    /\ gridManager.first = HIDDEN

----------------------------------------------------------------------------
(* Specification of a deal and its flight on the browser's event loop. The
   waits of CardAnim._animate are timers: a timer's callback is a task, tasks
   run one at a time, the promise reactions a task queues (the callback, the
   fulfilment of the node's promise, the steps of the nodes that waited for
   it) run before the next task, and timers set from the same handler fire in
   the order of their delays, equal delays in the order they were set. *)

\* when the step of the node of promise p ran, the time its timers were set
SetAt(objs, heap, p) == objs[p].due - heap[objs[p].node].duration

\* a promise reaction is queued: a step whose predecessors have all resolved,
\* or a callback whose wait is over
ReactionQueued(objs) ==
    \E p \in 1 .. Len(objs) :
        \/ objs[p].state = "waiting" /\ DepsResolved(objs, p)
        \/ objs[p].state = "ownDone"

\* the timer setTimeout ( res, duration ) of q fires before the one of p
TimerFirst(objs, heap, q, p) ==
    /\ q # p
    /\ objs[q].state = "running"
    /\ IF objs[q].due # objs[p].due THEN objs[q].due < objs[p].due
       ELSE IF SetAt(objs, heap, q) # SetAt(objs, heap, p)
            THEN SetAt(objs, heap, q) < SetAt(objs, heap, p)
            ELSE objs[q].deps = << >> /\ objs[p].deps = << >> /\ q < p

\* the 0 ms timer that applies the end params of q fires before the timer
\* setTimeout ( res, duration ) of p: it was set by the same step just before
\* it, or it is due earlier
EndFirst(objs, heap, q, p) ==
    /\ objs[q].endTimer
    /\ (q = p \/ SetAt(objs, heap, q) < objs[p].due)

\* the timer setTimeout ( res, duration ) of q fires before the 0 ms timer
\* that applies the end params of p
TimerBeforeEnd(objs, heap, q, p) ==
    /\ q # p
    /\ objs[q].state = "running"
    /\ IF objs[q].due # SetAt(objs, heap, p) THEN objs[q].due < SetAt(objs, heap, p)
       ELSE SetAt(objs, heap, q) < SetAt(objs, heap, p)

\* the task of the timer setTimeout ( res, this.duration )
TimerTask(p) ==
    /\ ~ReactionQueued(promiseObjs)
    /\ \A q \in 1 .. Len(promiseObjs) :
          /\ ~TimerFirst(promiseObjs, nodes, q, p)
          /\ ~EndFirst(promiseObjs, nodes, q, p)
    /\ OwnDone(p)

\* the task of the timer setTimeout ( () => applyAnimParams ( ... ) )
EndTask(p) ==
    /\ ~ReactionQueued(promiseObjs)
    /\ \A q \in 1 .. Len(promiseObjs) : ~TimerBeforeEnd(promiseObjs, nodes, q, p)
    /\ ApplyEnd(p)

\* time passes between tasks: the reactions queued by a task run at the time
\* of the task
BetweenTasks ==
    /\ ~ReactionQueued(promiseObjs)
    /\ Tick

\* deals of two and three cards; dealDelay 0 makes the timers of the cards
\* equal, a dealDuration above dealDelay makes the flights overlap
LoopConfigs ==
    { [DealBase EXCEPT !.dealSize = <<8, 8>>, !.cards = 2, !.random = {0},
                       !.dealDuration = 2],
      [DealBase EXCEPT !.dealSize = <<8, 8>>, !.cards = 2, !.random = {0},
                       !.dealDelay = 0],
      [DealBase EXCEPT !.dealSize = <<20, 8>>, !.cards = 3, !.random = {0},
                       !.dealDuration = 2] }

InitLoop ==
    /\ nodes = << >>
    /\ promises = << >>
    /\ promiseObjs = << >>
    /\ animated = 0
    /\ animateCount = << >>
    /\ fired = << >>
    /\ writes = {}
    /\ now = 0
    /\ nops = 0
    /\ last = NoCall
    /\ attached = << >>
    /\ followed = {}
    /\ \E cfg \in LoopConfigs : dealer = NewDealer(cfg)
    /\ gridManager = NoGridManager
    /\ popupManager = NoPopupManager
    /\ cardFaceManager = NoCardFaceManager
    /\ countdown = NoCountdown

NextLoop ==
    \/ NextDeal
    \/ \E f \in Fns : dealer.pc = "built" /\ AddCallback(Len(nodes), f)
    \/ dealer.pc = "built" /\ Animate(Len(nodes))
    \/ \E p \in 1 .. Len(promiseObjs) : RunAnimate(p)
    \/ \E p \in 1 .. Len(promiseObjs) : RunCallback(p)
    \/ \E p \in 1 .. Len(promiseObjs) : TimerTask(p)
    \/ \E p \in 1 .. Len(promiseObjs) : EndTask(p)
    \/ BetweenTasks

SpecLoop == InitLoop /\ [][NextLoop]_vars

\* the node that waits i * dealDelay for the card of index i - 1
Wait(i) == 2 * i - 1

\* the time the step of node n ran
StartedAt(n) == SetAt(promiseObjs, nodes, promises[n])

\* C34: card i's flight starts no earlier than i * dealDelay after animate ()
\* (called at time 0) and lasts dealDuration, flights start in card index
\* order, and the chain of a card depends on no node of another card.
C34_DealTiming ==
    (dealer.pc = "built" /\ animated # 0) =>
        \A i \in 1 .. dealer.cfg.cards :
            /\ nodes[Flight(i)].dependsOn = <<Wait(i)>>
            /\ nodes[Wait(i)].dependsOn = << >>
            /\ Started(Flight(i)) =>
                  /\ StartedAt(Flight(i)) >= (i - 1) * dealer.cfg.dealDelay
                  /\ promiseObjs[promises[Flight(i)]].due
                        = StartedAt(Flight(i)) + dealer.cfg.dealDuration
                  /\ Signalled(Flight(i)) =>
                        promiseObjs[promises[Flight(i)]].doneAt
                           >= StartedAt(Flight(i)) + dealer.cfg.dealDuration
                  /\ \A j \in 1 .. i - 1 :
                        /\ Started(Flight(j))
                        /\ StartedAt(Flight(j)) <= StartedAt(Flight(i))

\* the flights of two cards are running at the same time, the later card's
\* having started strictly later
C34_Witness ==
    /\ dealer.pc = "built"
    /\ animated # 0
    /\ dealer.cfg.dealDelay > 0
    /\ \E i \in 1 .. dealer.cfg.cards - 1 :
          /\ promiseObjs[promises[Flight(i)]].state = "running"
          /\ promiseObjs[promises[Flight(i + 1)]].state = "running"
          /\ StartedAt(Flight(i)) < StartedAt(Flight(i + 1))

----------------------------------------------------------------------------
(* CardFaceManager.flip: every call sets, for each card, a timer that classes
   the card when its flip is done. Times are in units of 50 ms. A timer fires
   at or after its due time; timers fire by due time, timers due together in
   the order they were set. The styles of the faces and the timers that only
   hide a face are not part of the state; the variant that fetches the faces
   sets the same timers and classes the card's face. *)

MaxFlips == 2

\* static cardFlipDelay = 150, static cardFlipDuration = 400
cardFlipDelay == 3
cardFlipDuration == 8

\* the arguments flip is called with: numFlips, and delays and durations that
\* are omitted (the defaults apply) or given
FlipCards == 3
NumFlips == {0, FlipCards - 1}
FlipTimes == {Omitted, Given(0)}

\* a default parameter: the static value unless the argument is given
OrDefault(argument, default) == IF argument = Omitted THEN default ELSE argument[1]

\* a timeout that counts the delay from the last card
FlipTimeoutReversed(i, delay, duration) == (FlipCards - 1 - i) * delay + duration

\* setTimeout ( ..., i * cardFlipDelay + cardFlipDuration ), for the card of
\* 0-based index i
FlipTimeout(i, delay, duration) == i * delay + duration

\* cardInner.classed ( "card-inactive", i >= numFlips ).classed (
\* "card-active", i < numFlips )
Classed(i, numFlips) == [active |-> i < numFlips, inactive |-> i >= numFlips]

\* new CardFaceManager ( cards ), on cards that carry the given classes.
\* timers holds the pending class timers in the order they were set; calls,
\* classedAt and classedBy record the calls made and, per card, when and on
\* behalf of which call it was classed last; ordered says that no card was
\* classed after a card of higher index.
NewCardFaceManager(classes) ==
    [pc |-> "faces",
     classes |-> [i \in 1 .. FlipCards |-> classes],
     timers |-> << >>, calls |-> << >>,
     classedAt |-> [i \in 1 .. FlipCards |-> 0],
     classedBy |-> [i \in 1 .. FlipCards |-> 0],
     highest |-> 0, ordered |-> TRUE]

\* the timers one call sets, for the cards of index i and above
RECURSIVE FlipTimers(_, _, _, _, _, _)
FlipTimers(i, numFlips, delay, duration, t, call) ==
    IF i >= FlipCards THEN << >>
    ELSE <<[card |-> i, numFlips |-> numFlips, call |-> call,
            due |-> t + FlipTimeout(i, delay, duration)]>>
         \o FlipTimers(i + 1, numFlips, delay, duration, t, call)

\* flip ( numFlips, cardFlipDelay, cardFlipDuration )
flip(numFlips, delay, duration) ==
    /\ cardFaceManager.pc = "faces"
    /\ Len(cardFaceManager.calls) < MaxFlips
    /\ cardFaceManager' =
          [cardFaceManager EXCEPT
              !.timers = @ \o FlipTimers(0, numFlips, OrDefault(delay, cardFlipDelay),
                                         OrDefault(duration, cardFlipDuration), now,
                                         Len(cardFaceManager.calls) + 1),
              !.calls = Append(@, [numFlips |-> numFlips,
                                   delay |-> OrDefault(delay, cardFlipDelay),
                                   duration |-> OrDefault(duration, cardFlipDuration),
                                   at |-> now])]
    /\ UNCHANGED << nodes, promises, promiseObjs, animated, animateCount, fired, writes, now,
                    nops, last, attached, followed, dealer, gridManager, popupManager,
                    countdown >>

\* the timer at position k is the next to fire: it is due, and no pending
\* timer is due before it or is due with it and was set before it
NextTimer(timers, k, t) ==
    /\ timers[k].due <= t
    /\ \A j \in 1 .. Len(timers) :
          /\ timers[j].due >= timers[k].due
          /\ j < k => timers[j].due > timers[k].due

\* the timeout "for when the flip is done" fires: "Class the card"
FlipDone(k) ==
    /\ cardFaceManager.pc = "faces"
    /\ k \in 1 .. Len(cardFaceManager.timers)
    /\ NextTimer(cardFaceManager.timers, k, now)
    /\ LET timer == cardFaceManager.timers[k]
       IN cardFaceManager' =
             [cardFaceManager EXCEPT
                 !.timers = Remove(@, k),
                 !.classes[timer.card + 1] = Classed(timer.card, timer.numFlips),
                 !.classedAt[timer.card + 1] = now,
                 !.classedBy[timer.card + 1] = timer.call,
                 !.ordered = @ /\ timer.card + 1 > cardFaceManager.highest,
                 !.highest = timer.card + 1]
    /\ UNCHANGED << nodes, promises, promiseObjs, animated, animateCount, fired, writes, now,
                    nops, last, attached, followed, dealer, gridManager, popupManager,
                    countdown >>

\* time passes, up to the moment a pending timer is due
FlipWait ==
    /\ cardFaceManager.pc = "faces"
    /\ \E k \in 1 .. Len(cardFaceManager.timers) :
          /\ cardFaceManager.timers[k].due > now
          /\ now' = cardFaceManager.timers[k].due
    /\ UNCHANGED << nodes, promises, promiseObjs, animated, animateCount, fired, writes,
                    nops, last, attached, followed, dealer, gridManager, popupManager,
                    cardFaceManager, countdown >>

InitFlip ==
    /\ nodes = << >>
    /\ promises = << >>
    /\ promiseObjs = << >>
    /\ animated = 0
    /\ animateCount = << >>
    /\ fired = << >>
    /\ writes = {}
    /\ now = 0
    /\ nops = 0
    /\ last = NoCall
    /\ attached = << >>
    /\ followed = {}
    /\ dealer = NoDealer
    /\ gridManager = NoGridManager
    /\ popupManager = NoPopupManager
    /\ \E inactive \in BOOLEAN :
          cardFaceManager = NewCardFaceManager([active |-> FALSE, inactive |-> inactive])
    /\ countdown = NoCountdown

NextFlip ==
    \/ \E numFlips \in NumFlips, delay \in FlipTimes, duration \in FlipTimes :
          flip(numFlips, delay, duration)
    \/ \E k \in 1 .. Len(cardFaceManager.timers) : FlipDone(k)
    \/ FlipWait

SpecFlip == InitFlip /\ [][NextFlip]_vars

\* the classes a card carries after flip ( numFlips ) has classed it
ActiveIff(classes, i, numFlips) ==
    IF i < numFlips THEN classes.active /\ ~classes.inactive
    ELSE classes.inactive /\ ~classes.active

\* C35: after a single flip ( numFlips ), once its timers have fired, card i
\* is card-active and not card-inactive exactly when i < numFlips, and the
\* reverse otherwise; card i is classed when i * cardFlipDelay +
\* cardFlipDuration has passed since the call, not before, and cards are
\* classed in index order.
C35_SingleFlip ==
    (cardFaceManager.pc = "faces" /\ Len(cardFaceManager.calls) = 1) =>
        LET call == cardFaceManager.calls[1] IN
        /\ cardFaceManager.ordered
        /\ \A i \in 0 .. FlipCards - 1 :
              /\ cardFaceManager.classedBy[i + 1] # 0 =>
                    /\ cardFaceManager.classedAt[i + 1]
                          >= call.at + i * call.delay + call.duration
                    /\ ActiveIff(cardFaceManager.classes[i + 1], i, call.numFlips)
                    /\ \A j \in 0 .. i - 1 :
                          /\ cardFaceManager.classedBy[j + 1] # 0
                          /\ cardFaceManager.classedAt[j + 1] <= cardFaceManager.classedAt[i + 1]
              /\ cardFaceManager.timers = << >> => cardFaceManager.classedBy[i + 1] = 1
              /\ \A k \in 1 .. Len(cardFaceManager.timers) :
                    cardFaceManager.timers[k].card = i =>
                        cardFaceManager.timers[k].due = call.at + i * call.delay + call.duration

\* one flip with the default delay and duration has classed every card, the
\* last one inactive and the others active, at different times
C35_Witness ==
    /\ cardFaceManager.pc = "faces"
    /\ Len(cardFaceManager.calls) = 1
    /\ cardFaceManager.calls[1].numFlips = FlipCards - 1
    /\ cardFaceManager.calls[1].delay = cardFlipDelay
    /\ cardFaceManager.timers = << >>
    /\ cardFaceManager.classes[1].active
    /\ cardFaceManager.classes[FlipCards].inactive
    /\ cardFaceManager.classedAt[1] < cardFaceManager.classedAt[FlipCards]

\* C36: when flip is called twice with different numFlips, and possibly other
\* delays and durations, once all timers of both calls have fired every
\* card's active/inactive class corresponds to the later call's numFlips.
C36_LaterFlipWins ==
    (/\ cardFaceManager.pc = "faces"
     /\ Len(cardFaceManager.calls) = 2
     /\ cardFaceManager.calls[1].numFlips # cardFaceManager.calls[2].numFlips
     /\ cardFaceManager.timers = << >>) =>
        \A i \in 0 .. FlipCards - 1 :
            ActiveIff(cardFaceManager.classes[i + 1], i, cardFaceManager.calls[2].numFlips)

----------------------------------------------------------------------------
(* setupCountdown: the countdown to a target time. The clock is Date.now (),
   in units of 500 ms; the interval of one second is due every two units and,
   like every timer, may run late. The texts are kept as numbers: the padding
   of the variant with padNumbers is not modelled. *)

MaxTicks == 4

\* a number is <<n>>, NaN and null are << >>: Date.parse ( target ) is a
\* timestamp, or NaN for a string that is no date
NaN == << >>
Num(n) == <<n>>

\* Math.max ( targetTimestamp - Date.now (), 0 ), in units of 500 ms
TimeRemaining(targetTimestamp, t) ==
    IF targetTimestamp = NaN THEN NaN ELSE Num(Max(targetTimestamp[1] - t, 0))

\* the texts written: ~~secondsRemaining % 60, ~~minutesRemaining % 60,
\* ~~hoursRemaining % 24 and ~~daysRemaining, with secondsRemaining =
\* timeRemaining / 1000
Texts(timeRemaining) ==
    IF timeRemaining = NaN
    THEN [seconds |-> 0, minutes |-> 0, hours |-> 0, days |-> 0]
    ELSE LET secondsRemaining == (timeRemaining[1] * 500) \div 1000
             minutesRemaining == secondsRemaining \div 60
             hoursRemaining == minutesRemaining \div 60
             daysRemaining == hoursRemaining \div 24
         IN [seconds |-> secondsRemaining % 60, minutes |-> minutesRemaining % 60,
             hours |-> hoursRemaining % 24, days |-> daysRemaining]

\* a check that does not ask whether an interval was set
AnyInterval(interval) == TRUE

\* "&& interval": an interval was set
HasInterval(interval) == interval # << >>

\* "If there is no time remaining, reload the page"
NoTimeRemaining(timeRemaining, interval) ==
    timeRemaining = Num(0) /\ HasInterval(interval)

\* targetTimestamp > Date.now ()
NotPassed(targetTimestamp, t) ==
    IF targetTimestamp = NaN THEN FALSE ELSE targetTimestamp[1] > t

\* const countdown = () => { ... }, run at time t
Countdown(c, t) ==
    LET timeRemaining == TimeRemaining(c.targetTimestamp, t) IN
    IF NoTimeRemaining(timeRemaining, c.interval)
    THEN [c EXCEPT !.cleared = TRUE,
                   !.reloads = @ + 1,
                   !.reloadDue = t + 2,
                   !.observed = timeRemaining,
                   !.running = c.interval # << >> /\ ~c.cleared]
    ELSE [c EXCEPT !.texts = Texts(timeRemaining), !.observed = timeRemaining]

\* the page before setupCountdown is called, with the target it will be given
NewCountdown(targetTimestamp) ==
    [pc |-> "page", targetTimestamp |-> targetTimestamp, interval |-> << >>,
     cleared |-> FALSE, due |-> 0, ret |-> << >>, texts |-> Texts(Num(0)),
     reloads |-> 0, reloadDue |-> 0, observed |-> NaN, running |-> FALSE,
     future |-> FALSE, ticks |-> 0, late |-> 0]

\* setupCountdown ( target, days, hours, minutes, seconds ): countdown () is
\* run once, then the clock is read again, elapsed later
SetupCountdown(elapsed) ==
    /\ countdown.pc = "page"
    /\ LET first == Countdown(countdown, now)
           set == NotPassed(countdown.targetTimestamp, now + elapsed)
       IN countdown' = [first EXCEPT !.pc = "set",
                                     !.interval = IF set THEN Num(1) ELSE << >>,
                                     !.due = now + elapsed + 2,
                                     !.future = set,
                                     !.ret = IF set THEN Num(1) ELSE << >>]
    /\ now' = now + elapsed
    /\ UNCHANGED << nodes, promises, promiseObjs, animated, animateCount, fired, writes,
                    nops, last, attached, followed, dealer, gridManager, popupManager,
                    cardFaceManager >>

\* the interval is live: set and not cleared
Live(c) == c.pc = "set" /\ c.interval # << >> /\ ~c.cleared

\* the interval fires: countdown ()
IntervalTick ==
    /\ Live(countdown)
    /\ countdown.ticks < MaxTicks
    /\ now >= countdown.due
    /\ countdown' = [Countdown(countdown, now) EXCEPT !.due = @ + 2, !.ticks = @ + 1]
    /\ UNCHANGED << nodes, promises, promiseObjs, animated, animateCount, fired, writes, now,
                    nops, last, attached, followed, dealer, gridManager, popupManager,
                    cardFaceManager >>

\* setTimeout ( () => location.reload (), 1000 ): the page is reloaded
Reload ==
    /\ countdown.pc = "set"
    /\ countdown.reloads > 0
    /\ now >= countdown.reloadDue
    /\ countdown' = [countdown EXCEPT !.pc = "reloaded"]
    /\ UNCHANGED << nodes, promises, promiseObjs, animated, animateCount, fired, writes, now,
                    nops, last, attached, followed, dealer, gridManager, popupManager,
                    cardFaceManager >>

\* time passes while a timer is pending; a timer may be one unit late
ClockTick ==
    /\ countdown.pc = "set"
    /\ \/ Live(countdown) /\ countdown.ticks < MaxTicks /\ now <= countdown.due
       \/ countdown.reloads > 0 /\ now <= countdown.reloadDue
    /\ now' = now + 1
    /\ UNCHANGED << nodes, promises, promiseObjs, animated, animateCount, fired, writes,
                    nops, last, attached, followed, dealer, gridManager, popupManager,
                    cardFaceManager, countdown >>

\* the targets: no date, times before, at and after the start of the clock,
\* and one 2 days, 3 hours, 4 minutes and 5 seconds after it
CountdownStart == 4
Targets ==
    {NaN} \cup {Num(n) : n \in {0, CountdownStart, CountdownStart + 1, CountdownStart + 3,
                                CountdownStart + 6,
                                CountdownStart + 2 * (((2 * 24 + 3) * 60 + 4) * 60 + 5)}}

InitCountdown ==
    /\ nodes = << >>
    /\ promises = << >>
    /\ promiseObjs = << >>
    /\ animated = 0
    /\ animateCount = << >>
    /\ fired = << >>
    /\ writes = {}
    /\ now = CountdownStart
    /\ nops = 0
    /\ last = NoCall
    /\ attached = << >>
    /\ followed = {}
    /\ dealer = NoDealer
    /\ gridManager = NoGridManager
    /\ popupManager = NoPopupManager
    /\ cardFaceManager = NoCardFaceManager
    /\ \E targetTimestamp \in Targets : countdown = NewCountdown(targetTimestamp)

NextCountdown ==
    \/ \E elapsed \in {0, 1} : SetupCountdown(elapsed)
    \/ IntervalTick
    \/ Reload
    \/ ClockTick

SpecCountdown == InitCountdown /\ [][NextCountdown]_vars

\* C37: setupCountdown creates the interval and returns its id only when the
\* target lies in the future at setup, and returns null otherwise; the reload
\* is scheduled at most once, only when a running interval observes zero time
\* remaining, which clears the interval so that no further tick runs, and
\* never when the target was already past at setup.
C37_CountdownReload ==
    /\ [](countdown.pc \in {"set", "reloaded"} =>
            /\ countdown.ret # << >> <=> countdown.future
            /\ countdown.interval # << >> <=> countdown.future
            /\ countdown.ret = countdown.interval
            /\ countdown.reloads <= 1
            /\ countdown.reloads = 1 =>
                  /\ countdown.future
                  /\ countdown.running
                  /\ countdown.observed = Num(0)
                  /\ countdown.cleared
            /\ ~countdown.future => countdown.reloads = 0 /\ countdown.ticks = 0)
    /\ [][countdown.pc = "set" =>
            /\ countdown'.reloads > countdown.reloads =>
                  /\ Live(countdown)
                  /\ countdown'.ticks > countdown.ticks
                  /\ countdown.targetTimestamp # NaN
                  /\ countdown.targetTimestamp[1] <= now
                  /\ ~Live(countdown')
            /\ countdown'.ticks > countdown.ticks => ~countdown.cleared
            /\ (countdown.cleared \/ countdown.interval = << >>) =>
                  /\ countdown'.ticks = countdown.ticks
                  /\ countdown'.texts = countdown.texts]_vars

\* an interval set for a target in the future has ticked, observed the time
\* run out, and the page was reloaded
C37_Witness ==
    /\ countdown.pc = "reloaded"
    /\ countdown.future
    /\ countdown.ticks > 1
    /\ countdown.reloads = 1

----------------------------------------------------------------------------
(* The Anim variant that memoizes in a plain object: animate ( promises = {} )
   tests promises.hasOwnProperty ( this ) and stores promises [ this ]. A
   property key is a string, and an Anim has no toString of its own, so the
   key of every node is the string Object.prototype.toString returns. The
   nodes are those Anim.Identity builds, whose step is a timer. *)

\* ToPropertyKey ( node ): String ( node )
PropertyKey(n) == "[object Object]"

\* promises.hasOwnProperty ( this )
HasOwnProperty(n, object) == PropertyKey(n) \in DOMAIN object

RECURSIVE animateKeyed(_, _, _)
RECURSIVE animateKeyedDeps(_, _, _, _)

\* Anim.animate ( promises ): st is the promises object and the promise
\* objects made so far; promises [ this ] = Promise.all ( depPromises ).then (
\* () => this._animate () )
animateKeyed(heap, n, st) ==
    IF HasOwnProperty(n, st.map)
    THEN st
    ELSE LET r == animateKeyedDeps(heap, heap[n].dependsOn, 1,
                                   [st |-> st, depPromises |-> << >>])
             id == Len(r.st.objs) + 1
         IN [ map |-> MapSet(r.st.map, PropertyKey(n), id),
              objs |-> Append(r.st.objs,
                  [node |-> n, deps |-> r.depPromises, state |-> "waiting",
                   due |-> 0, endTimer |-> FALSE, doneAt |-> 0]) ]

\* the loop "for ( const dep of this.dependsOn )": dep.animate ( promises );
\* depPromises.push ( promises [ dep ] )
animateKeyedDeps(heap, deps, i, acc) ==
    IF i > Len(deps)
    THEN acc
    ELSE LET st2 == animateKeyed(heap, deps[i], acc.st)
         IN animateKeyedDeps(heap, deps, i + 1,
                [st |-> st2,
                 depPromises |-> Append(acc.depPromises, st2.map[PropertyKey(deps[i])])])

\* Anim.Identity ( selection, ease, duration, dependsOn )
Identity(selection, ease, duration, dependsOn) ==
    NewNode("Anim", selection, Null, Null, ease, duration, dependsOn, << >>)

\* root.animate (): one call, with a fresh object
AnimateKeyed(root) ==
    /\ animated = 0
    /\ Terminates(nodes, root)
    /\ LET st == animateKeyed(nodes, root, [map |-> << >>, objs |-> << >>])
       IN /\ promises' = st.map
          /\ promiseObjs' = st.objs
    /\ animated' = root
    /\ animateCount' = [n \in 1 .. Len(nodes) |-> 0]
    /\ fired' = [n \in 1 .. Len(nodes) |-> << >>]
    /\ UNCHANGED << nodes, writes, now, nops, last, attached, followed, dealer, gridManager,
                    popupManager, cardFaceManager, countdown >>

\* three nodes: the third depends on the first two, or on one of them, and
\* the second may depend on the first
InitKeyed ==
    /\ \E d1 \in {0, MaxDuration}, deps2 \in {<< >>, <<1>>},
          deps3 \in {<<1, 2>>, <<2, 1>>, <<2>>, << >>} :
          nodes = << Identity(Selection("two", 2), "sinInOut", d1, << >>),
                     Identity(Selection("one", 1), "sinIn", MaxDuration, deps2),
                     Identity(Selection("two", 2), "sinOut", 0, deps3) >>
    /\ promises = << >>
    /\ promiseObjs = << >>
    /\ animated = 0
    /\ animateCount = << >>
    /\ fired = << >>
    /\ writes = {}
    /\ now = 0
    /\ nops = 0
    /\ last = NoCall
    /\ attached = [n \in 1 .. Len(nodes) |-> << >>]
    /\ followed = {}
    /\ dealer = NoDealer
    /\ gridManager = NoGridManager
    /\ popupManager = NoPopupManager
    /\ cardFaceManager = NoCardFaceManager
    /\ countdown = NoCountdown

NextKeyed ==
    \/ \E n \in 1 .. Len(nodes), f \in Fns : AddCallback(n, f)
    \/ \E root \in 1 .. Len(nodes) : AnimateKeyed(root)
    \/ \E p \in 1 .. Len(promiseObjs) : RunAnimate(p)
    \/ \E p \in 1 .. Len(promiseObjs) : OwnDone(p)
    \/ \E p \in 1 .. Len(promiseObjs) : RunCallback(p)
    \/ Tick

SpecKeyed == InitKeyed /\ [][NextKeyed]_vars

\* the promise objects made for node n
PromisesOf(n) == {p \in 1 .. Len(promiseObjs) : promiseObjs[p].node = n}

\* C38: the promises object holds one promise per distinct node: animate ()
\* on a node with two or more distinct predecessors schedules every node it
\* reaches once, and each node waits for each predecessor's own promise.
C38_OnePromisePerNode ==
    (animated # 0 /\ Cardinality(Preds(animated)) >= 2) =>
        /\ Cardinality(DOMAIN promises) = Cardinality({n \in NodeIds : InRun(n)})
        /\ \A n \in NodeIds :
              InRun(n) =>
                  /\ Cardinality(PromisesOf(n)) = 1
                  /\ \A p \in PromisesOf(n) :
                        {promiseObjs[promiseObjs[p].deps[i]].node :
                            i \in 1 .. Len(promiseObjs[p].deps)} = Preds(n)

----------------------------------------------------------------------------
(* The callback and the dependents *)

\* the callback of node n has run to its end: every function of the closure
\* the node holds has been called
CallbackReturned(n) == fired[n] = nodes[n].callback

\* C39: a node's completion callback has finished running before any node
\* that depends on it starts its own step: no step starts while the callback
\* of a predecessor has not returned.
C39_CallbackBeforeDependents ==
    /\ [](animated # 0 =>
            \A n \in NodeIds : Started(n) => \A q \in Preds(n) : CallbackReturned(q))
    /\ [][animated # 0 =>
            \A n \in NodeIds :
                animateCount'[n] > animateCount[n] =>
                    \A q \in Preds(n) : CallbackReturned(q) /\ fired'[q] = fired[q]]_vars

\* a node with two predecessors has started, after the callbacks of both, one
\* of them composed of two functions, have run
C39_Witness ==
    /\ animated # 0
    /\ \E n \in NodeIds :
          /\ animateCount[n] = 1
          /\ Cardinality(Preds(n)) >= 2
          /\ \A q \in Preds(n) : fired[q] # << >> /\ CallbackReturned(q)
          /\ \E q \in Preds(n) : Len(fired[q]) >= 2

====
